---- MODULE Spec2Model ----
(***************************************************************************)
(* The VBScript language server (server/src/server.ts): the symbol cache,  *)
(* the module-level open-construct state, the statement recognizers and    *)
(* the scope tree behind completion.                                       *)
(*                                                                         *)
(* Text is a sequence of one-character strings.  Columns are 0-based as in *)
(* the source; sequence indices are 1-based, so column c is index c + 1.   *)
(***************************************************************************)
EXTENDS Integers, Sequences, FiniteSets, TLC

VARIABLES documents, symbolCache, openClassName, openClassStart, openMethod,
          openProperty, run, console, response

vars == <<documents, symbolCache, openClassName, openClassStart, openMethod,
          openProperty, run, console, response>>

\* null / undefined of an object reference, and of a string.
Null == <<>>
NullStr == <<"<null>">>

-----------------------------------------------------------------------------
\* Characters and the string primitives of JavaScript the server uses.

LowerLetters == <<"a","b","c","d","e","f","g","h","i","j","k","l","m",
                  "n","o","p","q","r","s","t","u","v","w","x","y","z">>
UpperLetters == <<"A","B","C","D","E","F","G","H","I","J","K","L","M",
                  "N","O","P","Q","R","S","T","U","V","W","X","Y","Z">>
Digits == {"0","1","2","3","4","5","6","7","8","9"}

Range(f) == {f[i] : i \in DOMAIN f}

\* the /i flag of every regular expression of the server
LowerOf == [c \in Range(UpperLetters) |->
               LowerLetters[CHOOSE i \in DOMAIN UpperLetters : UpperLetters[i] = c]]

Lower(c) == IF c \in DOMAIN LowerOf THEN LowerOf[c] ELSE c

\* [ \t]
WsChars == {" ", "\t"}

\* [a-zA-Z0-9\-\_]
IdentChars == Range(LowerLetters) \cup Range(UpperLetters) \cup Digits \cup {"-", "_"}

\* [a-zA-Z0-9\_\-, \t]
ArgChars == IdentChars \cup {",", " ", "\t"}

\* the characters String.prototype.trim removes
TrimChars == {" ", "\t", "\r", "\n"}

IsTrimmed(c) == c \in TrimChars

Spaces(n) == [i \in 1..n |-> " "]

\* s.substring(from) with a 1-based first index
Tail1(s, from) == SubSeq(s, from, Len(s))

\* index after the longest run of characters of chars that starts at index i
RECURSIVE RunEnd(_, _, _)
RunEnd(s, i, chars) == IF i <= Len(s) /\ s[i] \in chars THEN RunEnd(s, i + 1, chars) ELSE i

\* s has the literal lit (lower case) at index i, ignoring case
HasAt(s, i, lit) ==
    /\ i + Len(lit) - 1 <= Len(s)
    /\ \A k \in 1..Len(lit) : Lower(s[i + k - 1]) = lit[k]

\* s has exactly sub at index i
HasExactAt(s, i, sub) ==
    /\ i + Len(sub) - 1 <= Len(s)
    /\ \A k \in 1..Len(sub) : s[i + k - 1] = sub[k]

\* the first index >= i at which s has exactly sub, 0 when there is none
RECURSIVE FirstAt(_, _, _)
FirstAt(s, sub, i) ==
    IF i + Len(sub) - 1 > Len(s) THEN 0
    ELSE IF HasExactAt(s, i, sub) THEN i
    ELSE FirstAt(s, sub, i + 1)

\* String.prototype.indexOf: 0-based, -1 when absent
IndexOf(s, sub) == FirstAt(s, sub, 1) - 1

\* String.prototype.trim
RECURSIVE TrimLeft(_)
TrimLeft(s) == IF Len(s) > 0 /\ IsTrimmed(s[1]) THEN TrimLeft(Tail(s)) ELSE s

RECURSIVE TrimRight(_)
TrimRight(s) ==
    IF Len(s) > 0 /\ IsTrimmed(s[Len(s)]) THEN TrimRight(SubSeq(s, 1, Len(s) - 1)) ELSE s

Trim(s) == TrimRight(TrimLeft(s))

\* String.prototype.split with a one-character separator
RECURSIVE Split(_, _)
Split(s, sep) ==
    LET at == FirstAt(s, <<sep>>, 1)
    IN  IF at = 0 THEN <<s>>
        ELSE <<SubSeq(s, 1, at - 1)>> \o Split(Tail1(s, at + 1), sep)

\* text.split(/\r?\n/g)
SplitLines(text) ==
    LET raw == Split(text, "\n")
    IN  [i \in 1..Len(raw) |->
            IF i < Len(raw) /\ Len(raw[i]) > 0 /\ raw[i][Len(raw[i])] = "\r"
            THEN SubSeq(raw[i], 1, Len(raw[i]) - 1)
            ELSE raw[i]]

GetNumberOfFrontSpaces(line) == RunEnd(line, 1, WsChars) - 1

Position(line, character) == [line |-> line, character |-> character]
MkRange(start, end) == [start |-> start, end |-> end]
Location(uri, range) == [uri |-> uri, range |-> range]

-----------------------------------------------------------------------------
\* The regular expressions of the recognizers, as data: a sequence of pieces
\* and the capture groups read off the ends of the pieces.  Every expression
\* of the server is anchored at both ends, and each of its pieces is delimited
\* by a character class or a literal that excludes what follows it, so one
\* left-to-right scan decides the match.  All carry the flag i.

kwPublic == <<"p","u","b","l","i","c">>
kwPrivate == <<"p","r","i","v","a","t","e">>
kwFunction == <<"f","u","n","c","t","i","o","n">>
kwSub == <<"s","u","b">>
kwEnd == <<"e","n","d">>
kwProperty == <<"p","r","o","p","e","r","t","y">>
kwLet == <<"l","e","t">>
kwSet == <<"s","e","t">>
kwGet == <<"g","e","t">>
kwClass == <<"c","l","a","s","s">>
kwDim == <<"d","i","m">>
kwConst == <<"c","o","n","s","t">>

\* [chars]* (min = 0) and [chars]+ (min = 1)
Run(chars, min) == [kind |-> "run", chars |-> chars, min |-> min]
\* (lit1|lit2|...)
Lit(lits) == [kind |-> "lit", lits |-> lits]
\* (pieces)?
Opt(sub) == [kind |-> "opt", sub |-> sub]
\* (pieces)*
Star(sub) == [kind |-> "star", sub |-> sub]
\* .*
Rest == [kind |-> "rest"]

\* [ \t]*   [ \t]+   [a-zA-Z0-9\-\_]+
ws == Run(WsChars, 0)
ws1 == Run(WsChars, 1)
ident == Run(IdentChars, 1)
\* (public[ \t]+|private[ \t]+)?
visibilityOpt == Opt(<<Lit(<<kwPublic, kwPrivate>>), ws1>>)
\* (\(([a-zA-Z0-9\_\-, \t]*)\))?
argsOpt == Opt(<<Lit(<<<<"(">>>>), Run(ArgChars, 0), Lit(<<<<")">>>>)>>)

\* a capture group: from the start of piece first to the end of piece last;
\* optional: it is undefined when it took no part; strip: the characters of
\* an enclosing group to drop at each end
Grp(first, last, optional, strip) ==
    [first |-> first, last |-> last, optional |-> optional, strip |-> strip]

\* length of the literal of lits (tried in order) found at index i, 0 if none
LitLen(s, i, lits) ==
    IF \E n \in DOMAIN lits : HasAt(s, i, lits[n])
    THEN Len(lits[CHOOSE n \in DOMAIN lits :
                     HasAt(s, i, lits[n]) /\ \A m \in 1..(n - 1) : ~HasAt(s, i, lits[m])])
    ELSE 0

\* e when it lies at least min after i, else 0 (no match)
AtLeast(e, i, min) == IF e - i >= min THEN e ELSE 0

\* index after the piece, or after the pieces in order, matched at index i;
\* 0 when there is no match
RECURSIVE PieceEnd(_, _, _)
RECURSIVE SeqEnd(_, _, _)
RECURSIVE StarEnd(_, _, _, _)
PieceEnd(s, i, piece) ==
    CASE i = 0 -> 0
      [] piece.kind = "run" -> AtLeast(RunEnd(s, i, piece.chars), i, piece.min)
      [] piece.kind = "lit" -> AtLeast(i + LitLen(s, i, piece.lits), i, 1)
      [] piece.kind = "opt" -> StarEnd(s, i, piece.sub, 1)
      [] piece.kind = "star" -> StarEnd(s, i, piece.sub, Len(s))
      [] piece.kind = "rest" -> Len(s) + 1

SeqEnd(s, i, pieces) ==
    IF pieces = <<>> THEN i
    ELSE SeqEnd(s, PieceEnd(s, i, Head(pieces)), Tail(pieces))

\* at most max repetitions of sub, as many as match
StarEnd(s, i, sub, max) ==
    IF max = 0 \/ SeqEnd(s, i, sub) <= i THEN i
    ELSE StarEnd(s, SeqEnd(s, i, sub), sub, max - 1)

\* marks[k] is the index piece k starts at and marks[k + 1] the index after
\* it, for the pieces matched in order; marks holds those found so far
RECURSIVE Marks(_, _, _)
Marks(s, marks, pieces) ==
    IF pieces = <<>> THEN marks
    ELSE Marks(s, Append(marks, PieceEnd(s, marks[Len(marks)], Head(pieces))), Tail(pieces))

\* the text of capture group g
GroupText(s, marks, g) ==
    IF g.optional /\ marks[g.last + 1] = marks[g.first]
    THEN NullStr
    ELSE SubSeq(s, marks[g.first] + g.strip, marks[g.last + 1] - 1 - g.strip)

NoMatch == [ok |-> FALSE]

\* the result of exec: group 0 is the whole match, which starts at index 0
Matched(s, groups, marks) ==
    IF marks[Len(marks)] # Len(s) + 1 THEN NoMatch
    ELSE [n \in DOMAIN groups \cup {"ok", "index", "g0"} |->
            CASE n = "ok" -> TRUE
              [] n = "index" -> 0
              [] n = "g0" -> s
              [] OTHER -> GroupText(s, marks, groups[n])]

\* regex.exec(line) of a fresh regular expression
Exec(regex, line) == Matched(line, regex.groups, Marks(line, <<1>>, regex.pieces))

\* /^[ \t]*(public[ \t]+|private[ \t]+)?(function|sub)([ \t]+)([a-zA-Z0-9\-\_]+)
\*   ([ \t]*)(\(([a-zA-Z0-9\_\-, \t]*)\))?[ \t]*$/gi
MethodStartRegex ==
    [pieces |-> <<ws, visibilityOpt, Lit(<<kwFunction, kwSub>>), ws1, ident, ws, argsOpt, ws>>,
     groups |-> [g1 |-> Grp(2, 2, TRUE, 0), g2 |-> Grp(3, 3, FALSE, 0),
                 g3 |-> Grp(4, 4, FALSE, 0), g4 |-> Grp(5, 5, FALSE, 0),
                 g5 |-> Grp(6, 6, FALSE, 0), g7 |-> Grp(7, 7, TRUE, 1)]]

\* /^[ \t]*end[ \t]+(function|sub)[ \t]*$/gi
MethodEndRegex ==
    [pieces |-> <<ws, Lit(<<kwEnd>>), ws1, Lit(<<kwFunction, kwSub>>), ws>>,
     groups |-> [g1 |-> Grp(4, 4, FALSE, 0)]]

\* /^[ \t]*(public[ \t]+|private[ \t]+)?(property[ \t]+)(let[ \t]+|set[ \t]+|get[ \t]+)
\*   ([a-zA-Z0-9\-\_]+)([ \t]*)(\(([a-zA-Z0-9\_\-, \t]*)\))?[ \t]*$/gi
PropertyStartRegex ==
    [pieces |-> <<ws, visibilityOpt, Lit(<<kwProperty>>), ws1, Lit(<<kwLet, kwSet, kwGet>>),
                  ws1, ident, ws, argsOpt, ws>>,
     groups |-> [g1 |-> Grp(2, 2, TRUE, 0), g2 |-> Grp(3, 4, FALSE, 0),
                 g3 |-> Grp(5, 6, FALSE, 0), g4 |-> Grp(7, 7, FALSE, 0),
                 g5 |-> Grp(8, 8, FALSE, 0), g7 |-> Grp(9, 9, TRUE, 1)]]

\* /^[ \t]*end[ \t]+property[ \t]*$/gi
PropertyEndRegex ==
    [pieces |-> <<ws, Lit(<<kwEnd>>), ws1, Lit(<<kwProperty>>), ws>>,
     groups |-> <<>>]

\* /^[ \t]*class[ \t]+([a-zA-Z0-9\-\_]+)[ \t]*$/gi
ClassStartRegex ==
    [pieces |-> <<ws, Lit(<<kwClass>>), ws1, ident, ws>>,
     groups |-> [g1 |-> Grp(4, 4, FALSE, 0)]]

\* /^[ \t]*end[ \t]+class[ \t]*$/gi
ClassEndRegex ==
    [pieces |-> <<ws, Lit(<<kwEnd>>), ws1, Lit(<<kwClass>>), ws>>,
     groups |-> <<>>]

\* /^[ \t]*(public[ \t]+|private[ \t]+)([a-zA-Z0-9\-\_]+)[ \t]*$/gi
MemberRegex ==
    [pieces |-> <<ws, Lit(<<kwPublic, kwPrivate>>), ws1, ident, ws>>,
     groups |-> [g1 |-> Grp(2, 3, FALSE, 0), g2 |-> Grp(4, 4, FALSE, 0)]]

\* /^[ \t]*(dim[ \t]+)(([a-zA-Z0-9\-\_]+[ \t]*\,[ \t]*)*)([a-zA-Z0-9\-\_]+)[ \t]*$/gi
VariableRegex ==
    [pieces |-> <<ws, Lit(<<kwDim>>), ws1, Star(<<ident, ws, Lit(<<<<",">>>>), ws>>), ident, ws>>,
     groups |-> [g1 |-> Grp(2, 3, FALSE, 0), g2 |-> Grp(4, 4, FALSE, 0),
                 g4 |-> Grp(5, 5, FALSE, 0)]]

\* /^[ \t]*(public[ \t]+|private[ \t]+)?const[ \t]+([a-zA-Z0-9\-\_]+)[ \t]*\=.*$/gi
ConstantRegex ==
    [pieces |-> <<ws, visibilityOpt, Lit(<<kwConst>>), ws1, ident, ws, Lit(<<<<"=">>>>), Rest>>,
     groups |-> [g1 |-> Grp(2, 2, TRUE, 0), g2 |-> Grp(5, 5, FALSE, 0)]]

-----------------------------------------------------------------------------
\* Symbols (VBSSymbol and its subclasses; kind names the subclass) and the
\* diagnostics written with console.log.

Symbol(kind, visibility, name, type, args, symbolRange, nameLocation, parentName) ==
    [kind |-> kind, visibility |-> visibility, name |-> name, type |-> type,
     args |-> args, symbolRange |-> symbolRange, nameLocation |-> nameLocation,
     parentName |-> parentName]

ErrorLog(lineNumber, text, arg) == [line |-> lineNumber, text |-> text, arg |-> arg]

StrLen(g) == IF g = NullStr THEN 0 ELSE Len(g)

-----------------------------------------------------------------------------
\* The open-construct state g: the module-level variables openClassName,
\* openClassStart, openMethod and openProperty.  A recognizer takes the state
\* it finds and yields what it returns, the state it leaves and what it logs.

OpenState(ocn, ocs, om, opr) ==
    [openClassName |-> ocn, openClassStart |-> ocs, openMethod |-> om, openProperty |-> opr]

Returns(ret, g, log) == [ret |-> ret, g |-> g, log |-> log]

-----------------------------------------------------------------------------
\* Methods.

\* the OpenMethod record of a matched method-open statement
NewOpenMethod(r, line, lineNumber, uri) ==
    LET leadingSpaces == GetNumberOfFrontSpaces(line)
        preLength == leadingSpaces + r.index + StrLen(r.g1) + StrLen(r.g2)
                     + StrLen(r.g3) + StrLen(r.g4) + StrLen(r.g5)
    IN  [visibility |-> r.g1,
         type |-> r.g2,
         name |-> r.g4,
         argsIndex |-> preLength + 1,
         args |-> IF r.g7 = NullStr THEN <<>> ELSE r.g7,
         startPosition |-> Position(lineNumber, leadingSpaces),
         nameLocation |-> Location(uri, MkRange(
             Position(lineNumber, IndexOf(line, r.g3)),
             Position(lineNumber, IndexOf(line, r.g3) + Len(r.g3))))]

\* a faulty variant of MethodStartMatched that opens the method whether or
\* not one is open
MethodStartOverwrites(regexResult, line, lineNumber, uri, g) ==
    IF ~regexResult.ok THEN Returns(FALSE, g, <<>>)
    ELSE Returns(TRUE,
                 [g EXCEPT !.openMethod = <<NewOpenMethod(regexResult, line, lineNumber, uri)>>],
                 <<>>)

\* GetMethodStart after rex.exec(line) gave regexResult
MethodStartMatched(regexResult, line, lineNumber, uri, g) ==
    IF ~regexResult.ok THEN Returns(FALSE, g, <<>>)
    ELSE IF g.openMethod = Null
    THEN Returns(TRUE,
                 [g EXCEPT !.openMethod = <<NewOpenMethod(regexResult, line, lineNumber, uri)>>],
                 <<>>)
    ELSE Returns(FALSE, g,
                 <<ErrorLog(lineNumber, "'end function' or 'end sub' expected!", <<>>)>>)

GetMethodStart(line, lineNumber, uri, g) ==
    MethodStartMatched(Exec(MethodStartRegex, line), line, lineNumber, uri, g)

\* ReplaceAll(target, search, replacement) for a literal, non-empty search
RECURSIVE ReplaceAll(_, _, _)
ReplaceAll(target, search, replacement) ==
    IF Len(target) = 0 THEN <<>>
    ELSE IF HasExactAt(target, 1, search)
    THEN replacement \o ReplaceAll(Tail1(target, Len(search) + 1), search, replacement)
    ELSE <<target[1]>> \o ReplaceAll(Tail1(target, 2), search, replacement)

\* the symbol of the loop body of GetParameterSymbols, given the pieces of arg
ParameterNamed(splittedByValByRefName, arg, argsIndex, lineNumber, uri) ==
    LET name == IF Len(splittedByValByRefName) = 1
                THEN Trim(splittedByValByRefName[1])
                ELSE Trim(splittedByValByRefName[2])
        type == IF Len(splittedByValByRefName) = 1
                THEN <<>>
                ELSE Trim(splittedByValByRefName[1])
        start == argsIndex + IndexOf(arg, name)
        range == MkRange(Position(lineNumber, start), Position(lineNumber, start + Len(name)))
    IN  Symbol("Variable", <<>>, name, type, <<>>, range, Location(uri, range), <<>>)

\* the loop body of GetParameterSymbols for one comma-separated piece
ParameterSymbol(arg, argsIndex, lineNumber, uri) ==
    ParameterNamed(
        Split(Trim(ReplaceAll(ReplaceAll(arg, <<"\t">>, <<" ">>), <<" ", " ">>, <<" ">>)), " "),
        arg, argsIndex, lineNumber, uri)

RECURSIVE ParameterSymbolsFrom(_, _, _, _, _)
ParameterSymbolsFrom(argsSplitted, i, argsIndex, lineNumber, uri) ==
    IF i > Len(argsSplitted) THEN <<>>
    ELSE <<ParameterSymbol(argsSplitted[i], argsIndex, lineNumber, uri)>>
         \o ParameterSymbolsFrom(argsSplitted, i + 1,
                                 argsIndex + Len(argsSplitted[i]) + 1, lineNumber, uri)

GetParameterSymbols(args, argsIndex, lineNumber, uri) ==
    IF args = NullStr \/ args = <<>> THEN <<>>
    ELSE ParameterSymbolsFrom(Split(args, ","), 1, argsIndex, lineNumber, uri)

\* a faulty variant of MethodSymbol that takes the kind from the close
\* statement instead of the open method
MethodSymbolOfCloseKind(m, type, ocn, range) ==
    Symbol("Method", m.visibility, m.name, type, m.args, range, m.nameLocation, ocn)

\* the VBSMethodSymbol GetMethodSymbol fills in; type is the keyword of the
\* close statement, range the range it computed
MethodSymbol(m, type, ocn, range) ==
    Symbol("Method", m.visibility, m.name, m.type, m.args, range, m.nameLocation, ocn)

\* the symbols GetMethodSymbol returns for the open method m
MethodSymbols(m, type, ocn, range, uri) ==
    GetParameterSymbols(m.args, m.argsIndex, range.start.line, uri)
        \o <<MethodSymbol(m, type, ocn, range)>>

\* GetMethodSymbol after classEndRegex.exec(line) gave regexResult
MethodEndMatched(regexResult, line, lineNumber, uri, g) ==
    IF ~regexResult.ok THEN Returns(Null, g, <<>>)
    ELSE IF g.openMethod = Null
    THEN Returns(Null, g, <<ErrorLog(lineNumber, "There is no %s to end!", regexResult.g1)>>)
    ELSE Returns(MethodSymbols(g.openMethod[1], regexResult.g1, g.openClassName,
                               MkRange(g.openMethod[1].startPosition,
                                       Position(lineNumber,
                                                GetNumberOfFrontSpaces(line)
                                                    + Len(Trim(regexResult.g0)))),
                               uri),
                 [g EXCEPT !.openMethod = Null],
                 IF regexResult.g1 # g.openMethod[1].type
                 THEN <<ErrorLog(lineNumber, "'end %s' expected!", g.openMethod[1].type)>>
                 ELSE <<>>)

GetMethodSymbol(line, lineNumber, uri, g) ==
    MethodEndMatched(Exec(MethodEndRegex, line), line, lineNumber, uri, g)

-----------------------------------------------------------------------------
\* Properties.

NewOpenProperty(r, line, lineNumber, uri) ==
    LET leadingSpaces == GetNumberOfFrontSpaces(line)
        preLength == leadingSpaces + r.index + StrLen(r.g1) + StrLen(r.g2)
                     + StrLen(r.g3) + StrLen(r.g4) + StrLen(r.g5)
    IN  [visibility |-> r.g1,
         type |-> r.g3,
         name |-> r.g4,
         argsIndex |-> preLength + 1,
         args |-> IF r.g7 = NullStr THEN <<>> ELSE r.g7,
         startPosition |-> Position(lineNumber, leadingSpaces),
         nameLocation |-> Location(uri, MkRange(
             Position(lineNumber, IndexOf(line, r.g4)),
             Position(lineNumber, IndexOf(line, r.g4) + Len(r.g4))))]

\* GetPropertyStart after propertyStartRegex.exec(line) gave regexResult
PropertyStartMatched(regexResult, line, lineNumber, uri, g) ==
    IF ~regexResult.ok THEN Returns(FALSE, g, <<>>)
    ELSE IF g.openProperty = Null
    THEN Returns(TRUE,
                 [g EXCEPT !.openProperty =
                     <<NewOpenProperty(regexResult, line, lineNumber, uri)>>],
                 <<>>)
    ELSE Returns(FALSE, g,
                 <<ErrorLog(lineNumber, "'end function' or 'end sub' expected!", <<>>)>>)

GetPropertyStart(line, lineNumber, uri, g) ==
    PropertyStartMatched(Exec(PropertyStartRegex, line), line, lineNumber, uri, g)

PropertySymbol(p, ocn, range) ==
    Symbol("Property", <<>>, p.name, p.type, p.args, range, p.nameLocation, ocn)

\* the symbols GetPropertySymbol returns for the open property p
PropertySymbols(p, ocn, range, uri) ==
    GetParameterSymbols(p.args, p.argsIndex, range.start.line, uri)
        \o <<PropertySymbol(p, ocn, range)>>

\* GetPropertySymbol after classEndRegex.exec(statement) gave regexResult
PropertyEndMatched(regexResult, statement, lineNumber, uri, g) ==
    IF ~regexResult.ok THEN Returns(Null, g, <<>>)
    ELSE IF g.openProperty = Null
    THEN Returns(Null, g, <<ErrorLog(lineNumber, "There is no property to end!", <<>>)>>)
    ELSE Returns(PropertySymbols(g.openProperty[1], g.openClassName,
                                 MkRange(g.openProperty[1].startPosition,
                                         Position(lineNumber,
                                                  GetNumberOfFrontSpaces(statement)
                                                      + Len(Trim(regexResult.g0)))),
                                 uri),
                 [g EXCEPT !.openProperty = Null],
                 <<>>)

GetPropertySymbol(statement, lineNumber, uri, g) ==
    PropertyEndMatched(Exec(PropertyEndRegex, statement), statement, lineNumber, uri, g)

-----------------------------------------------------------------------------
\* Fields, variables, constants.

\* a faulty variant of MemberMatched that gives the field no parent
MemberWithoutParent(regexResult, line, lineNumber, uri, g) ==
    LET intendention == GetNumberOfFrontSpaces(line)
        range == MkRange(Position(lineNumber, intendention),
                         Position(lineNumber, intendention + Len(Trim(regexResult.g0))))
    IN  IF ~regexResult.ok THEN Returns(Null, g, <<>>)
        ELSE Returns(<<Symbol("Member", regexResult.g1, regexResult.g2, <<>>, <<>>, range,
                              Location(uri, MkRange(Position(lineNumber, 0),
                                                    Position(lineNumber, Len(regexResult.g2)))),
                              NullStr)>>,
                     g, <<>>)

\* GetMemberSymbol after memberStartRegex.exec(line) gave regexResult
MemberMatched(regexResult, line, lineNumber, uri, g) ==
    LET visibility == regexResult.g1
        name == regexResult.g2
        intendention == GetNumberOfFrontSpaces(line)
        nameStartIndex == IndexOf(line, line)
        range == MkRange(Position(lineNumber, intendention),
                         Position(lineNumber, intendention + Len(Trim(regexResult.g0))))
    IN  IF ~regexResult.ok THEN Returns(Null, g, <<>>)
        ELSE Returns(<<Symbol("Member", visibility, name, <<>>, <<>>, range,
                              Location(uri, MkRange(
                                  Position(lineNumber, nameStartIndex),
                                  Position(lineNumber, nameStartIndex + Len(name)))),
                              g.openClassName)>>,
                     g, <<>>)

GetMemberSymbol(line, lineNumber, uri, g) ==
    MemberMatched(Exec(MemberRegex, line), line, lineNumber, uri, g)

GetVariableNamesFromList(variables) ==
    LET parts == Split(variables, ",")
    IN  [i \in 1..Len(parts) |-> Trim(parts[i])]

\* name, then [ \t]*, then a comma or the end of the line, at index i
NameAt(line, i, name) ==
    /\ HasAt(line, i, [k \in 1..Len(name) |-> Lower(name[k])])
    /\ LET e == RunEnd(line, i + Len(name), WsChars)
       IN  e = Len(line) + 1 \/ line[e] = ","

\* the first index >= i of a match of (name[ \t]*)(\,|$) in line
RECURSIVE FirstNameAt(_, _, _)
FirstNameAt(line, i, name) ==
    IF NameAt(line, i, name) THEN i ELSE FirstNameAt(line, i + 1, name)

\* new RegExp("(" + name.trim() + "[ \t]*)(\,|$)", "gi").exec(line), with
\* name already trimmed
NameRange(lineNumber, index, name) ==
    MkRange(Position(lineNumber, index), Position(lineNumber, index + Len(name)))

GetNameRange(lineNumber, line, name) ==
    NameRange(lineNumber, FirstNameAt(line, 1, Trim(name)) - 1, Trim(name))

\* a faulty variant of ParentName in which an open method comes before an
\* open property
ParentNameMethodFirst(g) ==
    IF g.openMethod # Null THEN g.openMethod[1].name
    ELSE IF g.openProperty # Null THEN g.openProperty[1].name
    ELSE IF g.openClassName # NullStr THEN g.openClassName
    ELSE <<>>

\* parent of a variable or a constant
ParentName(g) ==
    IF g.openProperty # Null THEN g.openProperty[1].name
    ELSE IF g.openMethod # Null THEN g.openMethod[1].name
    ELSE IF g.openClassName # NullStr THEN g.openClassName
    ELSE <<>>

\* the symbol of the loop body of GetVariableSymbol for one name, given its
\* name range and the offset of the first element
VariableSymbol(name, nameRange, firstElementOffset, lineNumber, uri, parentName) ==
    Symbol("Variable", <<>>, name, <<>>, <<>>,
           MkRange(Position(lineNumber, nameRange.start.character - firstElementOffset),
                   Position(lineNumber, nameRange.end.character)),
           Location(uri, nameRange),
           parentName)

\* the loop of GetVariableSymbol over the names of the list
VariableSymbols(variables, visibility, line, lineNumber, uri, parentName) ==
    [i \in 1..Len(variables) |->
        VariableSymbol(variables[i], GetNameRange(lineNumber, line, variables[i]),
                       IF i = 1 THEN Len(visibility) ELSE 0,
                       lineNumber, uri, parentName)]

\* GetVariableSymbol after variableRegex.exec(line) gave regexResult
VariableMatched(regexResult, line, lineNumber, uri, g) ==
    IF ~regexResult.ok THEN Returns(Null, g, <<>>)
    ELSE Returns(VariableSymbols(GetVariableNamesFromList(regexResult.g2 \o regexResult.g4),
                                 regexResult.g1, line, lineNumber, uri, ParentName(g)),
                 g, <<>>)

GetVariableSymbol(line, lineNumber, uri, g) ==
    VariableMatched(Exec(VariableRegex, line), line, lineNumber, uri, g)

\* GetConstantSymbol after memberStartRegex.exec(line) gave regexResult
ConstantMatched(regexResult, line, lineNumber, uri, g) ==
    LET visibility == IF regexResult.g1 # NullStr THEN Trim(regexResult.g1) ELSE NullStr
        name == Trim(regexResult.g2)
        intendention == GetNumberOfFrontSpaces(line)
        nameStartIndex == IndexOf(line, line)
        range == MkRange(Position(lineNumber, intendention),
                         Position(lineNumber, intendention + Len(Trim(regexResult.g0))))
    IN  IF ~regexResult.ok THEN Returns(Null, g, <<>>)
        ELSE Returns(<<Symbol("Constant", visibility, name, <<>>, <<>>, range,
                              Location(uri, MkRange(
                                  Position(lineNumber, nameStartIndex),
                                  Position(lineNumber, nameStartIndex + Len(name)))),
                              ParentName(g))>>,
                     g, <<>>)

\* a faulty variant of GetConstantSymbol that recognizes a constant inside a
\* method or a property too
GetConstantSymbolInAnyScope(line, lineNumber, uri, g) ==
    ConstantMatched(Exec(ConstantRegex, line), line, lineNumber, uri, g)

GetConstantSymbol(line, lineNumber, uri, g) ==
    IF g.openMethod # Null \/ g.openProperty # Null THEN Returns(Null, g, <<>>)
    ELSE ConstantMatched(Exec(ConstantRegex, line), line, lineNumber, uri, g)

-----------------------------------------------------------------------------
\* Classes.

NoClassStart == Position(-1, -1)

\* GetClassStart after classStartRegex.exec(line) gave regexResult
ClassStartMatched(regexResult, lineNumber, g) ==
    IF ~regexResult.ok THEN Returns(FALSE, g, <<>>)
    ELSE Returns(TRUE,
                 [g EXCEPT !.openClassName = regexResult.g1,
                           !.openClassStart = Position(lineNumber, 0)],
                 <<>>)

GetClassStart(line, lineNumber, uri, g) ==
    ClassStartMatched(Exec(ClassStartRegex, line), lineNumber, g)

\* a faulty variant of ClassSymbol whose range starts on the line of the
\* end class statement
ClassSymbolOfCloseLine(ocn, ocs, range, uri) ==
    Symbol("Class", <<>>, ocn, <<>>, <<>>,
           MkRange(Position(range.end.line, 0), range.end),
           Location(uri, MkRange(ocs, Position(ocs.line, ocs.character + Len(ocn)))),
           <<>>)

\* the VBSClassSymbol of the open class, closed with the given range
ClassSymbol(ocn, ocs, range, uri) ==
    Symbol("Class", <<>>, ocn, <<>>, <<>>, range,
           Location(uri, MkRange(ocs, Position(ocs.line, ocs.character + Len(ocn)))),
           <<>>)

\* GetClassSymbol after classEndRegex.exec(line) gave regexResult
ClassEndMatched(regexResult, lineNumber, uri, g) ==
    IF ~regexResult.ok THEN Returns(Null, g, <<>>)
    ELSE Returns(<<ClassSymbol(g.openClassName, g.openClassStart,
                               MkRange(g.openClassStart,
                                       Position(lineNumber, Len(regexResult.g0))),
                               uri)>>,
                 [g EXCEPT !.openClassName = NullStr, !.openClassStart = NoClassStart],
                 (IF g.openMethod # Null
                  THEN <<ErrorLog(lineNumber, "'end %s' expected!", g.openMethod[1].type)>>
                  ELSE <<>>)
                 \o (IF g.openProperty # Null
                     THEN <<ErrorLog(lineNumber, "'end property' expected!", <<>>)>>
                     ELSE <<>>))

\* a faulty variant of GetClassSymbol that closes a class whether or not one
\* is open
GetClassSymbolUnguarded(line, lineNumber, uri, g) ==
    ClassEndMatched(Exec(ClassEndRegex, line), lineNumber, uri, g)

GetClassSymbol(line, lineNumber, uri, g) ==
    IF g.openClassName = NullStr THEN Returns(Null, g, <<>>)
    ELSE ClassEndMatched(Exec(ClassEndRegex, line), lineNumber, uri, g)

-----------------------------------------------------------------------------
\* FindSymbol: the recognizers in their fixed order, first result wins.

\* the recognizers that return a boolean, and on true make FindSymbol return []
Starters == {1, 3, 5}

\* the k-th recognizer FindSymbol calls
Recognize(k, statement, lineNumber, uri, g) ==
    CASE k = 1 -> GetMethodStart(statement, lineNumber, uri, g)
      [] k = 2 -> GetMethodSymbol(statement, lineNumber, uri, g)
      [] k = 3 -> GetPropertyStart(statement, lineNumber, uri, g)
      [] k = 4 -> GetPropertySymbol(statement, lineNumber, uri, g)
      [] k = 5 -> GetClassStart(statement, lineNumber, uri, g)
      [] k = 6 -> GetClassSymbol(statement, lineNumber, uri, g)
      [] k = 7 -> GetMemberSymbol(statement, lineNumber, uri, g)
      [] k = 8 -> GetVariableSymbol(statement, lineNumber, uri, g)
      [] k = 9 -> GetConstantSymbol(statement, lineNumber, uri, g)

Found(done, symbols, g, log) == [done |-> done, symbols |-> symbols, g |-> g, log |-> log]

\* FindSymbol after its k-th recognizer gave res, log being what was logged
\* before: it returns when res is true, or a symbol or a list of symbols
After(k, res, log) ==
    Found(IF k \in Starters THEN res.ret ELSE res.ret # Null,
          IF k \in Starters THEN <<>> ELSE res.ret,
          res.g, log \o res.log)

\* FindSymbol from its k-th recognizer on; past the last it returns []
RECURSIVE FindFrom(_, _, _, _, _)
FindFrom(k, statement, lineNumber, uri, acc) ==
    IF acc.done \/ k > 9 THEN acc
    ELSE FindFrom(k + 1, statement, lineNumber, uri,
                  After(k, Recognize(k, statement, lineNumber, uri, acc.g), acc.log))

\* the symbols returned, the open-construct state left and the lines logged
FindSymbol(statement, lineNumber, uri, g) ==
    FindFrom(1, statement, lineNumber, uri, Found(FALSE, <<>>, g, <<>>))

-----------------------------------------------------------------------------
\* CollectSymbols: the per-line preparation.

ReplaceBySpaces(match) == Spaces(Len(match))

\* /\"(([^\"]|\"\")*)\"/ tried at an opening quote: q scans the body after it,
\* last is the start of the last doubled quote passed (0 if none).  The result
\* is the index of the closing quote the greedy match settles on, 0 if there
\* is no match: the first lone quote, or else, backing off, the last doubled one.
RECURSIVE LiteralEnd(_, _, _)
LiteralEnd(s, q, last) ==
    IF q > Len(s) THEN last
    ELSE IF s[q] # "\"" THEN LiteralEnd(s, q + 1, last)
    ELSE IF q + 1 <= Len(s) /\ s[q + 1] = "\"" THEN LiteralEnd(s, q + 2, q)
    ELSE q

RECURSIVE ReplaceLiteralsFrom(_, _)
ReplaceLiteralsFrom(s, i) ==
    IF i > Len(s) THEN s
    ELSE IF s[i] = "\"" /\ LiteralEnd(s, i + 1, 0) > 0
    THEN LET e == LiteralEnd(s, i + 1, 0)
         IN  ReplaceLiteralsFrom(SubSeq(s, 1, i - 1) \o ReplaceBySpaces(SubSeq(s, i, e))
                                 \o Tail1(s, e + 1), e + 1)
    ELSE ReplaceLiteralsFrom(s, i + 1)

ReplaceStringLiterals(line) == ReplaceLiteralsFrom(line, 1)

\* a faulty variant of PadStatements that takes the offset of the next
\* statement from the length of the statement without its padding
RECURSIVE PadStatementsByOwnLength(_, _, _)
PadStatementsByOwnLength(statements, i, offset) ==
    IF i > Len(statements) THEN <<>>
    ELSE <<Spaces(offset) \o statements[i]>>
             \o PadStatementsByOwnLength(statements, i + 1, Len(statements[i]) + 1)

RECURSIVE PadStatements(_, _, _)
PadStatements(statements, i, offset) ==
    IF i > Len(statements) THEN <<>>
    ELSE LET padded == Spaces(offset) \o statements[i]
         IN  <<padded>> \o PadStatements(statements, i + 1, Len(padded) + 1)

SplitStatements(line) == PadStatements(Split(line, ":"), 1, 0)

\* the statements CollectSymbols hands to FindSymbol for one physical line
StatementsOfLine(rawLine) ==
    LET containsComment == IndexOf(rawLine, <<"'">>)
        line == IF containsComment > -1 THEN SubSeq(rawLine, 1, containsComment) ELSE rawLine
    IN  SplitStatements(ReplaceStringLiterals(line))

-----------------------------------------------------------------------------
\* The scope tree of GetSymbolsOfScope.

\* a faulty variant of PositionInRange that holds the end of the range
PositionInRangeOrAtEnd(range, position) ==
    /\ ~(range.start.line > position.line)
    /\ ~(range.end.line < position.line)
    /\ ~(range.start.line = position.line /\ range.start.character >= position.character)
    /\ ~(range.end.line = position.line /\ range.end.character < position.character)

PositionInRange(range, position) ==
    /\ ~(range.start.line > position.line)
    /\ ~(range.end.line < position.line)
    /\ ~(range.start.line = position.line /\ range.start.character >= position.character)
    /\ ~(range.end.line = position.line /\ range.end.character <= position.character)

\* the comparison function handed to Array.prototype.sort
CompareStart(a, b) ==
    LET diff == a.symbolRange.start.line - b.symbolRange.start.line
    IN  IF diff # 0 THEN diff
        ELSE a.symbolRange.start.character - b.symbolRange.start.character

\* symbols.sort(compare): the engine's sort keeps equal elements in order
RECURSIVE SortSymbols(_)
SortSymbols(symbols) ==
    IF Len(symbols) = 0 THEN <<>>
    ELSE LET x == symbols[Len(symbols)]
             front == SortSymbols(SubSeq(symbols, 1, Len(symbols) - 1))
             n == Cardinality({j \in 1..Len(front) : CompareStart(front[j], x) <= 0})
         IN  SubSeq(front, 1, n) \o <<x>> \o Tail1(front, n + 1)

\* A tree over the sorted symbols: node 0 is the root (data = null), node i
\* holds sorted[i]; parent[i] is its parent; children are ordered by index,
\* which is the order of children.push.
ChildrenOf(parent, node) == {j \in DOMAIN parent : parent[j] = node}

NodeAccepts(sorted, node, position) ==
    node = 0 \/ PositionInRange(sorted[node].symbolRange, position)

\* the node the recursive descent ends in: the first child, in order, that
\* holds the position, and so on down
RECURSIVE Descend(_, _, _, _)
Descend(sorted, parent, node, position) ==
    LET holding == {j \in ChildrenOf(parent, node) : NodeAccepts(sorted, j, position)}
    IN  IF holding = {} THEN node
        ELSE Descend(sorted, parent,
                     CHOOSE j \in holding : \A k \in holding : j <= k, position)

\* root.InsertIntoTree(sorted[i]) for i = 1..n, in order
RECURSIVE InsertIntoTree(_, _)
InsertIntoTree(sorted, n) ==
    IF n = 0 THEN <<>>
    ELSE LET parent == InsertIntoTree(sorted, n - 1)
         IN  Append(parent, Descend(sorted, parent, 0, sorted[n].symbolRange.start))

GetVBSSymbolTree(symbols) ==
    LET sortedSymbols == SortSymbols(symbols)
    IN  [sorted |-> sortedSymbols, parent |-> InsertIntoTree(sortedSymbols, Len(sortedSymbols))]

FindDirectParent(tree, position) == Descend(tree.sorted, tree.parent, 0, position)

\* the indices of the children of set, in index order
RECURSIVE IndexSeq(_)
IndexSeq(set) ==
    IF set = {} THEN <<>>
    ELSE LET m == CHOOSE j \in set : \A k \in set : j <= k
         IN  <<m>> \o IndexSeq(set \ {m})

\* a faulty variant of GetAllParentsAndTheirDirectChildren that leaves out the
\* ancestors' children
OnlyDirectChildren(tree, node) ==
    [i \in 1..Cardinality(ChildrenOf(tree.parent, node)) |->
        tree.sorted[IndexSeq(ChildrenOf(tree.parent, node))[i]]]

RECURSIVE GetAllParentsAndTheirDirectChildren(_, _)
GetAllParentsAndTheirDirectChildren(tree, node) ==
    LET symbols == IF node # 0
                   THEN GetAllParentsAndTheirDirectChildren(tree, tree.parent[node])
                   ELSE <<>>
        kids == IndexSeq(ChildrenOf(tree.parent, node))
    IN  symbols \o [i \in 1..Len(kids) |-> tree.sorted[kids[i]]]

GetSymbolsOfScope(symbols, position) ==
    LET symbolTree == GetVBSSymbolTree(symbols)
    IN  GetAllParentsAndTheirDirectChildren(symbolTree, FindDirectParent(symbolTree, position))

-----------------------------------------------------------------------------
\* What the client is told: outline entries and completion items.

JsString(v) == IF v = NullStr THEN <<"u","n","d","e","f","i","n","e","d">> ELSE v

GetLsName(symbol) ==
    CASE symbol.kind = "Method" ->
             symbol.name \o <<" ", "(">> \o symbol.args \o <<")">>
      [] symbol.kind = "Property" ->
             IF symbol.args # <<>>
             THEN symbol.type \o <<" ">> \o symbol.name \o <<" ", "(">> \o symbol.args \o <<")">>
             ELSE symbol.type \o <<" ">> \o symbol.name
      [] OTHER -> symbol.name

GetLsSymbolKind(symbol) ==
    CASE symbol.kind = "Class" -> "Class"
      [] symbol.kind = "Method" -> "Method"
      [] symbol.kind = "Property" -> "Property"
      [] symbol.kind = "Member" -> "Field"
      [] symbol.kind = "Constant" -> "Constant"
      [] OTHER -> "File"

GetLsCompletionItem(symbol) ==
    CASE symbol.kind = "Class" ->
             [label |-> symbol.name, kind |-> "Class", insertText |-> symbol.name,
              documentation |-> NullStr]
      [] symbol.kind = "Method" ->
             [label |-> symbol.name, kind |-> "Method",
              insertText |-> symbol.name \o <<"(">> \o symbol.args \o <<")">>,
              documentation |-> JsString(symbol.visibility) \o <<" ">> \o symbol.type
                                \o <<" ">> \o symbol.name \o <<"(">> \o symbol.args \o <<")">>]
      [] symbol.kind = "Property" ->
             [label |-> symbol.name, kind |-> "Property", insertText |-> symbol.name,
              documentation |-> Trim(Trim(symbol.visibility) \o Trim(symbol.type)
                                     \o Trim(symbol.name) \o <<"(">> \o symbol.args \o <<")">>)]
      [] symbol.kind = "Member" ->
             [label |-> symbol.name, kind |-> "Field", insertText |-> symbol.name,
              documentation |-> NullStr]
      [] symbol.kind = "Constant" ->
             [label |-> symbol.name, kind |-> "Variable", insertText |-> symbol.name,
              documentation |-> NullStr]
      [] OTHER ->
             [label |-> symbol.name, kind |-> "Text", insertText |-> symbol.name,
              documentation |-> NullStr]

GetLanguageServerSymbols(symbols) ==
    [i \in 1..Len(symbols) |->
        [name |-> GetLsName(symbols[i]),
         kind |-> GetLsSymbolKind(symbols[i]),
         location |-> Location(symbols[i].nameLocation.uri, symbols[i].symbolRange),
         containerName |-> symbols[i].parentName]]

GetLanguageServerCompletionItems(symbols) ==
    [i \in 1..Len(symbols) |-> GetLsCompletionItem(symbols[i])]

-----------------------------------------------------------------------------
\* The documents the model opens, and the positions it asks completions at.

Uris == {"a.vbs", "b.vbs"}

lnFunction == <<"f","u","n","c","t","i","o","n"," ","f","(","a",","," ","b",")">>
lnSub == <<" ","S","u","b"," ","g">>
lnEndFunction == <<"e","n","d"," ","f","u","n","c","t","i","o","n">>
lnEndSub == <<" ","E","n","d"," ","S","u","b">>
lnProperty == <<"p","r","o","p","e","r","t","y"," ","g","e","t"," ","p">>
lnEndProperty == <<"e","n","d"," ","p","r","o","p","e","r","t","y">>
lnClass == <<"c","l","a","s","s"," ","A">>
lnEndClass == <<"e","n","d"," ","c","l","a","s","s">>
lnMember == <<" ","p","r","i","v","a","t","e"," ","m">>
lnDim == <<" "," ","d","i","m"," ","x",","," ","y">>
lnConst == <<"c","o","n","s","t"," ","c"," ","="," ","1">>

RECURSIVE JoinLines(_)
JoinLines(ls) ==
    IF Len(ls) = 0 THEN <<>>
    ELSE IF Len(ls) = 1 THEN ls[1]
    ELSE ls[1] \o <<"\n">> \o JoinLines(Tail(ls))

\* the texts of the server specification
Texts ==
    { JoinLines(<<lnClass, lnFunction, lnDim, lnEndFunction, lnEndClass>>),
      JoinLines(<<lnSub>>),
      JoinLines(<<lnEndFunction>>),
      JoinLines(<<lnClass, lnSub, lnEndClass, lnEndFunction>>),
      JoinLines(<<lnProperty, lnFunction, lnEndFunction, lnMember>>),
      JoinLines(<<lnFunction, lnEndFunction, lnSub, lnDim, lnEndSub>>) }

\* the statement library of the parser specification, and its texts: every
\* sequence of one to MaxLines lines
Lines ==
    { lnFunction, lnSub, lnEndFunction, lnEndSub, lnProperty, lnEndProperty,
      lnClass, lnEndClass }

MaxLines == 3

ParseTexts == UNION {{JoinLines(t) : t \in [1..n -> Lines]} : n \in 1..MaxLines}

MaxPosLine == 4

Positions == {Position(l, c) : l \in 0..MaxPosLine, c \in {0, 2, 7}}

-----------------------------------------------------------------------------
\* The server.  run is the handler in progress: the request it serves, the
\* line (0-based) and statement (1-based) CollectSymbols is at, and the
\* symbolsList it fills.  Handlers run to completion: no other handler starts
\* while run is set.

Init ==
    /\ documents = [u \in Uris |-> Null]
    /\ symbolCache = [u \in Uris |-> Null]
    /\ openClassName = NullStr
    /\ openClassStart = NoClassStart
    /\ openMethod = Null
    /\ openProperty = Null
    /\ run = Null
    /\ console = <<>>
    /\ response = Null

Idle == run = Null

opens == <<openClassName, openClassStart, openMethod, openProperty>>

\* the text document manager takes the new content; the server's
\* onDidChangeContent handler is empty
DidChangeContent(uri, text) ==
    /\ Idle
    /\ documents' = [documents EXCEPT ![uri] = <<text>>]
    /\ console' = <<>>
    /\ response' = Null
    /\ UNCHANGED <<symbolCache, opens, run>>

\* the client opens a document that was not open, with one of texts
DidOpen(uri, texts) ==
    /\ documents[uri] = Null
    /\ \E t \in texts : DidChangeContent(uri, t)

\* a faulty variant of StartRefresh whose symbolsList starts from the
\* collection already stored for the document
StartRefreshCarriesOver(op, uri, position) ==
    /\ Idle
    /\ console' = <<>>
    /\ IF documents[uri] = Null
       THEN /\ response' = <<[op |-> op, uri |-> uri, error |-> "TypeError"]>>
            /\ run' = Null
       ELSE /\ response' = Null
            /\ run' = <<[op |-> op, uri |-> uri, position |-> position,
                         i |-> 0, k |-> 1,
                         symbolsList |-> IF symbolCache[uri] = Null THEN <<>>
                                         ELSE symbolCache[uri][1]]>>
    /\ UNCHANGED <<documents, symbolCache, opens>>

\* RefreshDocumentsSymbols(uri) up to the call of CollectSymbols; documents.get
\* of a document that is not open is undefined and document.getText() throws
StartRefresh(op, uri, position) ==
    /\ Idle
    /\ console' = <<>>
    /\ IF documents[uri] = Null
       THEN /\ response' = <<[op |-> op, uri |-> uri, error |-> "TypeError"]>>
            /\ run' = Null
       ELSE /\ response' = Null
            /\ run' = <<[op |-> op, uri |-> uri, position |-> position,
                         i |-> 0, k |-> 1, symbolsList |-> <<>>]>>
    /\ UNCHANGED <<documents, symbolCache, opens>>

\* a watched file changed: the handler refreshes its symbols and answers nothing
OnDidChangeWatchedFilesChanged(uri) ==
    /\ Idle
    /\ StartRefresh("watched", uri, Position(0, 0))

\* a faulty variant of OnDidChangeWatchedFilesDeleted that leaves the stored
\* collection in place
DeletedKeepsSnapshot(uri) ==
    /\ Idle
    /\ console' = <<>>
    /\ response' = Null
    /\ UNCHANGED <<documents, symbolCache, opens, run>>

\* a watched file was deleted: its slot of the cache is set to null
OnDidChangeWatchedFilesDeleted(uri) ==
    /\ Idle
    /\ symbolCache' = [symbolCache EXCEPT ![uri] = Null]
    /\ console' = <<>>
    /\ response' = Null
    /\ UNCHANGED <<documents, opens, run>>

\* GetSymbolsOfDocument: always a refresh, then the outline of the collection
OnDocumentSymbol(uri) ==
    /\ Idle
    /\ StartRefresh("documentSymbol", uri, Position(0, 0))

\* what SelectCompletionItems does with the symbols it has: the sort of
\* GetVBSSymbolTree is in place, on the cached array itself
SelectFrom(symbols, position) ==
    [cached |-> SortSymbols(symbols),
     items |-> GetLanguageServerCompletionItems(GetSymbolsOfScope(symbols, position))]

\* a faulty variant of OnCompletion that refreshes the symbols of the
\* document whether or not a collection is stored for it
OnCompletionAlwaysRefreshes(uri, position) ==
    /\ Idle
    /\ StartRefresh("completion", uri, position)

\* onCompletion, that is SelectCompletionItems: a refresh only when nothing is
\* stored for the document, then the items of the symbols of the scope
OnCompletion(uri, position) ==
    /\ Idle
    /\ IF symbolCache[uri] = Null
       THEN StartRefresh("completion", uri, position)
       ELSE
         /\ LET sel == SelectFrom(symbolCache[uri][1], position)
            IN  /\ symbolCache' = [symbolCache EXCEPT ![uri] = <<sel.cached>>]
                /\ response' = <<[op |-> "completion", uri |-> uri, position |-> position,
                                  items |-> sel.items]>>
         /\ console' = <<>>
         /\ UNCHANGED <<documents, opens, run>>

\* a faulty variant of Collect that gives the parse up when the statement
\* was logged as an error
CollectStopsOnError(r, statements, found) ==
    /\ openClassName' = found.g.openClassName
    /\ openClassStart' = found.g.openClassStart
    /\ openMethod' = found.g.openMethod
    /\ openProperty' = found.g.openProperty
    /\ console' = found.log
    /\ run' = IF found.log # <<>> THEN Null
              ELSE <<[r EXCEPT !.symbolsList = @ \o found.symbols,
                               !.i = IF r.k = Len(statements) THEN @ + 1 ELSE @,
                               !.k = IF r.k = Len(statements) THEN 1 ELSE @ + 1]>>

\* one turn of the forEach over the statements of line r.i of CollectSymbols,
\* found being what FindSymbol gave for statement r.k of the line
Collect(r, statements, found) ==
    /\ openClassName' = found.g.openClassName
    /\ openClassStart' = found.g.openClassStart
    /\ openMethod' = found.g.openMethod
    /\ openProperty' = found.g.openProperty
    /\ console' = found.log
    /\ run' = <<[r EXCEPT !.symbolsList = @ \o found.symbols,
                          !.i = IF r.k = Len(statements) THEN @ + 1 ELSE @,
                          !.k = IF r.k = Len(statements) THEN 1 ELSE @ + 1]>>

\* the statements of line i (0-based) of the text
StatementsAt(text, i) == StatementsOfLine(SplitLines(text)[i + 1])

NumberOfLines(text) == Len(SplitLines(text))

CollectStatement(r, statements) ==
    Collect(r, statements,
            FindSymbol(statements[r.k], r.i, r.uri,
                       OpenState(openClassName, openClassStart, openMethod, openProperty)))

ParseStatement ==
    /\ run # Null
    /\ run[1].i < NumberOfLines(documents[run[1].uri][1])
    /\ CollectStatement(run[1], StatementsAt(documents[run[1].uri][1], run[1].i))
    /\ UNCHANGED <<documents, symbolCache, response>>

\* CollectSymbols has returned: the cache slot is assigned and the handler
\* that asked for the refresh answers
FinishRefresh ==
    /\ run # Null
    /\ LET r == run[1]
           sel == SelectFrom(r.symbolsList, r.position)
       IN  /\ r.i = Len(SplitLines(documents[r.uri][1]))
           /\ symbolCache' = [symbolCache EXCEPT ![r.uri] =
                                 IF r.op = "completion" THEN <<sel.cached>>
                                 ELSE <<r.symbolsList>>]
           /\ response' =
                 IF r.op = "completion"
                 THEN <<[op |-> r.op, uri |-> r.uri, position |-> r.position,
                         items |-> sel.items]>>
                 ELSE IF r.op = "documentSymbol"
                 THEN <<[op |-> r.op, uri |-> r.uri,
                         symbols |-> GetLanguageServerSymbols(r.symbolsList)]>>
                 ELSE Null
    /\ run' = Null
    /\ console' = <<>>
    /\ UNCHANGED <<documents, opens>>

Next ==
    \/ \E u \in Uris : DidOpen(u, Texts)
    \/ \E u \in Uris : OnDidChangeWatchedFilesChanged(u)
    \/ \E u \in Uris : OnDidChangeWatchedFilesDeleted(u)
    \/ \E u \in Uris : OnDocumentSymbol(u)
    \/ \E u \in Uris, p \in Positions : OnCompletion(u, p)
    \/ ParseStatement
    \/ FinishRefresh

Spec == Init /\ [][Next]_vars

\* The parser specification: one document, opened with any text of ParseTexts
\* and refreshed any number of times.
ParsedUri == "a.vbs"

NextParse ==
    \/ DidOpen(ParsedUri, ParseTexts)
    \/ OnDidChangeWatchedFilesChanged(ParsedUri)
    \/ ParseStatement
    \/ FinishRefresh

SpecParse == Init /\ [][NextParse]_vars

\* The editing specification: one document, opened with one of EditTexts and
\* then edited to another of them any number of times, refreshed by watched
\* file events, completion requests and outline requests.  In each of the
\* texts every construct that is opened is closed.
EditTexts ==
    { JoinLines(<<lnFunction, lnEndFunction>>),
      JoinLines(<<lnClass, lnMember, lnEndClass>>),
      JoinLines(<<lnSub, lnDim, lnEndSub>>) }

\* the editor changes the content of an open document to another of texts
DidChange(uri, texts) ==
    /\ documents[uri] # Null
    /\ \E t \in texts \ {documents[uri][1]} : DidChangeContent(uri, t)

NextEdit ==
    \/ DidOpen(ParsedUri, EditTexts)
    \/ DidChange(ParsedUri, EditTexts)
    \/ OnDidChangeWatchedFilesChanged(ParsedUri)
    \/ OnDocumentSymbol(ParsedUri)
    \/ \E p \in Positions : OnCompletion(ParsedUri, p)
    \/ ParseStatement
    \/ FinishRefresh

SpecEdit == Init /\ [][NextEdit]_vars

\* The declaration specification: one document, opened with any sequence of
\* one to MaxLines lines of DeclLines (a class, a field, and a Dim statement
\* that ends with the line continuation marker, followed by its second line)
\* and refreshed any number of times.
lnDimContinued == <<"D","i","m"," ","x",","," ","_">>
lnContinuation == <<" "," "," "," ","y">>

DeclLines == { lnClass, lnEndClass, lnMember, lnDimContinued, lnContinuation }

DeclTexts == UNION {{JoinLines(t) : t \in [1..n -> DeclLines]} : n \in 1..MaxLines}

NextDecl ==
    \/ DidOpen(ParsedUri, DeclTexts)
    \/ OnDidChangeWatchedFilesChanged(ParsedUri)
    \/ ParseStatement
    \/ FinishRefresh

SpecDecl == Init /\ [][NextDecl]_vars

\* The line specification: one document of one line, any sequence of one to
\* MaxChars characters of LineChars (a letter, the quote, the colon and the
\* comment marker), refreshed any number of times.
LineChars == {"x", "\"", ":", "'"}

MaxChars == 4

LineTexts == UNION {[1..n -> LineChars] : n \in 1..MaxChars}

NextLine ==
    \/ DidOpen(ParsedUri, LineTexts)
    \/ OnDidChangeWatchedFilesChanged(ParsedUri)
    \/ ParseStatement
    \/ FinishRefresh

SpecLine == Init /\ [][NextLine]_vars


\* The Dim specification: one document of one line, a Dim statement of one to
\* MaxNames names of DimNames with any of DimGaps before and after each comma,
\* indented or not, refreshed any number of times.
DimNames == { <<"x">>, <<"y">>, <<"x","y">> }

DimGaps == { <<>>, <<" ">>, <<"\t">> }

MaxNames == 2

RECURSIVE DimLists(_)
DimLists(n) ==
    IF n = 1 THEN DimNames
    ELSE { name \o before \o <<",">> \o after \o rest :
               name \in DimNames, before \in DimGaps, after \in DimGaps,
               rest \in DimLists(n - 1) }

DimTexts ==
    { indent \o <<"D","i","m"," ">> \o list :
          indent \in { <<>>, <<" ">> },
          list \in UNION { DimLists(n) : n \in 1..MaxNames } }

NextDim ==
    \/ DidOpen(ParsedUri, DimTexts)
    \/ OnDidChangeWatchedFilesChanged(ParsedUri)
    \/ ParseStatement
    \/ FinishRefresh

SpecDim == Init /\ [][NextDim]_vars


\* The outline specification: one document, opened with one of OutlineTexts
\* (a class with a field and a constant, a function with two parameters and
\* a Dim statement, a sub, a property, a constant) and edited to another of
\* them any number of times, with watched file events and outline requests.
OutlineTexts ==
    { JoinLines(<<lnClass, lnMember, lnConst, lnEndClass>>),
      JoinLines(<<lnFunction, lnDim, lnEndFunction>>),
      JoinLines(<<lnSub, lnEndSub>>),
      JoinLines(<<lnProperty, lnEndProperty>>),
      lnConst }

NextOutline ==
    \/ DidOpen(ParsedUri, OutlineTexts)
    \/ DidChange(ParsedUri, OutlineTexts)
    \/ OnDidChangeWatchedFilesChanged(ParsedUri)
    \/ OnDocumentSymbol(ParsedUri)
    \/ ParseStatement
    \/ FinishRefresh

SpecOutline == Init /\ [][NextOutline]_vars


\* The scope specification: one document, opened with any sequence of one to
\* MaxLines lines of ScopeLines (a class and its end, a sub and a property
\* that stay open, a constant and a Dim statement) and refreshed any number
\* of times.
ScopeLines == { lnClass, lnEndClass, lnSub, lnProperty, lnConst, lnDim }

ScopeTexts == UNION {{JoinLines(t) : t \in [1..n -> ScopeLines]} : n \in 1..MaxLines}

NextScope ==
    \/ DidOpen(ParsedUri, ScopeTexts)
    \/ OnDidChangeWatchedFilesChanged(ParsedUri)
    \/ ParseStatement
    \/ FinishRefresh

SpecScope == Init /\ [][NextScope]_vars


\* The parameter specification: one document of two lines, a sub or a
\* property with one to MaxParams parameters of ParamTokens (a name, alone or
\* after a modifier, with spaces and tabs between and around them), indented
\* and with a visibility or not, followed by its end statement; refreshed
\* any number of times.
ParamTokens ==
    { <<"x">>, <<" ","a"," ">>,
      <<"b","y","v","a","l"," ","x">>, <<"b","y","v","a","l"," ","a">>,
      <<"\t","b","y","r","e","f","\t","\t","x">>,
      <<"b","y","v","a","l"," "," "," ","x">> }

MaxParams == 2

RECURSIVE ParamLists(_)
ParamLists(n) ==
    IF n = 1 THEN ParamTokens
    ELSE { token \o <<",">> \o rest : token \in ParamTokens, rest \in ParamLists(n - 1) }

ParamOpens ==
    { <<<<"S","u","b"," ","g">>, lnEndSub>>,
      <<<<"p","r","o","p","e","r","t","y"," ","l","e","t"," ","p">>, lnEndProperty>> }

ParamTexts ==
    { JoinLines(<<indent \o visibility \o open[1] \o <<"(">> \o list \o <<")">>, open[2]>>) :
          indent \in { <<>>, <<" ">> },
          visibility \in { <<>>, <<"p","u","b","l","i","c"," ">> },
          open \in ParamOpens,
          list \in UNION { ParamLists(n) : n \in 1..MaxParams } }

NextParam ==
    \/ DidOpen(ParsedUri, ParamTexts)
    \/ OnDidChangeWatchedFilesChanged(ParsedUri)
    \/ ParseStatement
    \/ FinishRefresh

SpecParam == Init /\ [][NextParam]_vars


\* The class specification: one document, opened with any sequence of one to
\* MaxLines lines of ClassLines (two class statements with different names,
\* end class and a sub) and refreshed any number of times.
lnClassB == <<"C","l","a","s","s"," ","B">>

ClassLines == { lnClass, lnClassB, lnEndClass, lnSub }

ClassTexts == UNION {{JoinLines(t) : t \in [1..n -> ClassLines]} : n \in 1..MaxLines}

NextClass ==
    \/ DidOpen(ParsedUri, ClassTexts)
    \/ OnDidChangeWatchedFilesChanged(ParsedUri)
    \/ ParseStatement
    \/ FinishRefresh

SpecClass == Init /\ [][NextClass]_vars


\* The scope specification of completion: one document, opened with one of
\* TreeTexts (a sub that a class closes over, a function in a class, two
\* methods at file scope) and edited to another of them any number of times,
\* refreshed by watched file events and asked for completions at
\* TreePositions, which hold the start and the end of each class and method
\* of the texts.
TreeTexts ==
    { JoinLines(<<lnClass, lnSub, lnEndClass, lnDim, lnEndSub>>),
      JoinLines(<<lnClass, lnFunction, lnDim, lnEndFunction, lnEndClass>>),
      JoinLines(<<lnFunction, lnEndFunction, lnSub, lnDim, lnEndSub>>) }

TreePositions == {Position(l, c) : l \in 0..MaxPosLine, c \in {0, 1, 2, 8, 9, 12}}

NextTree ==
    \/ DidOpen(ParsedUri, TreeTexts)
    \/ DidChange(ParsedUri, TreeTexts)
    \/ OnDidChangeWatchedFilesChanged(ParsedUri)
    \/ \E p \in TreePositions : OnCompletion(ParsedUri, p)
    \/ ParseStatement
    \/ FinishRefresh

SpecTree == Init /\ [][NextTree]_vars

-----------------------------------------------------------------------------
\* Reading a run of the server.

\* CollectSymbols as a function of the lines and of the open-construct state
\* it starts in: the symbolsList and the state it leaves
RECURSIVE CollectFrom(_, _, _, _, _)
CollectFrom(lines, i, k, uri, acc) ==
    IF i >= Len(lines) THEN acc
    ELSE LET statements == StatementsOfLine(lines[i + 1])
             found == FindSymbol(statements[k], i, uri, acc.g)
             last == k = Len(statements)
         IN  CollectFrom(lines, IF last THEN i + 1 ELSE i, IF last THEN 1 ELSE k + 1, uri,
                         [symbols |-> acc.symbols \o found.symbols, g |-> found.g])

NothingOpen == OpenState(NullStr, NoClassStart, Null, Null)

\* CollectSymbols(document) of a parse that starts with nothing open
CollectSymbols(text, uri) ==
    CollectFrom(SplitLines(text), 0, 1, uri, [symbols |-> <<>>, g |-> NothingOpen]).symbols

\* CollectSymbols is about to hand a statement to FindSymbol
Parsing == run # Null /\ run[1].i < NumberOfLines(documents[run[1].uri][1])

\* that statement
CurrentStatement == StatementsAt(documents[run[1].uri][1], run[1].i)[run[1].k]

\* the symbols a step appends to symbolsList
Emitted ==
    SubSeq(run'[1].symbolsList, Len(run[1].symbolsList) + 1, Len(run'[1].symbolsList))

\* a step of CollectSymbols that moves on to the next statement
MovesOn == run' # Null /\ <<run'[1].i, run'[1].k>> # <<run[1].i, run[1].k>>

LowerStr(str) == [k \in 1..Len(str) |-> Lower(str[k])]

IsMethodStart(statement) == Exec(MethodStartRegex, statement).ok
IsMethodEnd(statement) == Exec(MethodEndRegex, statement).ok
IsPropertyStart(statement) == Exec(PropertyStartRegex, statement).ok
IsPropertyEnd(statement) == Exec(PropertyEndRegex, statement).ok

\* the kind (function or sub) a close statement names
CloseKind(statement) == LowerStr(Exec(MethodEndRegex, statement).g1)

Logged(log, entry) == \E j \in DOMAIN log : log[j] = entry

PosBefore(a, b) == a.line < b.line \/ (a.line = b.line /\ a.character < b.character)

RangeContains(outer, inner) ==
    ~PosBefore(inner.start, outer.start) /\ ~PosBefore(outer.end, inner.end)

StrictlyInside(inner, outer) ==
    PosBefore(outer.start, inner.start) /\ PosBefore(inner.end, outer.end)

SymbolsList == run[1].symbolsList

LastSymbol(symbols) == symbols[Len(symbols)]

\* line l (0-based) of the document being parsed, as its only statement
LineOfRun(l) == SplitLines(documents[run[1].uri][1])[l + 1]

-----------------------------------------------------------------------------
\* C1.  Idempotence of refresh: a refresh of a text that was refreshed before
\* and has not changed stores the collection the earlier refresh stored.  In
\* SpecParse the text of the document never changes and nothing but a refresh
\* writes the cache, so every refresh that finds a stored collection must
\* store that collection again.
C1_RefreshIdempotent ==
    [][(run # Null /\ run' = Null /\ symbolCache[ParsedUri] # Null)
          => symbolCache'[ParsedUri] = symbolCache[ParsedUri]]_vars

\* C2.  Cross-document independence: what a refresh of a document stores is a
\* function of the text of that document alone.  The first refresh of a run
\* starts with nothing open, so that function is CollectSymbols on the text
\* with nothing open; a completion request stores the collection sorted.
C2_StoredIsFunctionOfText ==
    [][(run # Null /\ run' = Null)
          => symbolCache'[run[1].uri] =
                 <<IF run[1].op = "completion"
                   THEN SortSymbols(CollectSymbols(documents[run[1].uri][1], run[1].uri))
                   ELSE CollectSymbols(documents[run[1].uri][1], run[1].uri)>>]_vars

\* C3.  A close statement (end function / end sub) whose kind differs from the
\* kind of the open method does not stop the parse: the mismatch is logged
\* with the kind that was expected, the method is closed, and the Method
\* symbol emitted has the kind, name and parameter text of the open statement.
C3_MismatchedCloseStillCloses ==
    [][(/\ Parsing
        /\ openMethod # Null
        /\ IsMethodEnd(CurrentStatement)
        /\ CloseKind(CurrentStatement) # LowerStr(openMethod[1].type))
          => /\ MovesOn
             /\ Logged(console', ErrorLog(run[1].i, "'end %s' expected!", openMethod[1].type))
             /\ openMethod' = Null
             /\ Emitted # <<>>
             /\ LastSymbol(Emitted).kind = "Method"
             /\ LastSymbol(Emitted).type = openMethod[1].type
             /\ LastSymbol(Emitted).name = openMethod[1].name
             /\ LastSymbol(Emitted).args = openMethod[1].args]_vars

\* C3 happens: the statement just processed is a close statement, the symbol
\* it emitted is a Method of the other kind, and the mismatch was logged.
C3_Witness ==
    /\ run # Null
    /\ run[1].i >= 1
    /\ IsMethodEnd(LineOfRun(run[1].i - 1))
    /\ SymbolsList # <<>>
    /\ LastSymbol(SymbolsList).kind = "Method"
    /\ LowerStr(LastSymbol(SymbolsList).type) # CloseKind(LineOfRun(run[1].i - 1))
    /\ Logged(console, ErrorLog(run[1].i - 1, "'end %s' expected!",
                                LastSymbol(SymbolsList).type))
    /\ openMethod = Null

\* C4.  A construct still open at the end of the document is discarded: when
\* no parse is in progress no class, method or property is open.
C4_NothingOpenAfterParse ==
    run = Null => /\ openClassName = NullStr
                  /\ openMethod = Null
                  /\ openProperty = Null

\* C5.  A method or property that is open when end class is processed is
\* discarded: no symbol is emitted for it later.  In the symbolsList of a
\* parse, a Method or Property that follows a Class was emitted after that
\* class was closed; if it starts before the end of the class it was open
\* when the class was closed.
C5_OpenAtEndClassDiscarded ==
    run # Null =>
        \A i, j \in DOMAIN SymbolsList :
            (/\ i < j
             /\ SymbolsList[i].kind = "Class"
             /\ SymbolsList[j].kind \in {"Method", "Property"})
                => ~PosBefore(SymbolsList[j].symbolRange.start,
                              SymbolsList[i].symbolRange.end)

\* C6.  A method and a property are never open at the same time.
C6_MethodPropertyExclusive == ~(openMethod # Null /\ openProperty # Null)

\* C7.  A method-open statement processed while a method is open, and a
\* property-open statement processed while a property is open, is rejected:
\* the open record is unchanged and no symbol is emitted.  The record of an
\* open method or property changes only when its close statement is
\* processed, and that step emits the symbol of the record: its kind, name,
\* parameters and start position.
C7_RejectedOpenKeepsOriginal ==
    [][/\ (Parsing /\ openMethod # Null /\ IsMethodStart(CurrentStatement))
            => openMethod' = openMethod /\ Emitted = <<>>
       /\ (Parsing /\ openProperty # Null /\ IsPropertyStart(CurrentStatement))
            => openProperty' = openProperty /\ Emitted = <<>>
       /\ (openMethod # Null /\ openMethod' # openMethod)
            => /\ Parsing /\ IsMethodEnd(CurrentStatement)
               /\ Emitted # <<>>
               /\ LastSymbol(Emitted).kind = "Method"
               /\ LastSymbol(Emitted).type = openMethod[1].type
               /\ LastSymbol(Emitted).name = openMethod[1].name
               /\ LastSymbol(Emitted).args = openMethod[1].args
               /\ LastSymbol(Emitted).symbolRange.start = openMethod[1].startPosition
       /\ (openProperty # Null /\ openProperty' # openProperty)
            => /\ Parsing /\ IsPropertyEnd(CurrentStatement)
               /\ Emitted # <<>>
               /\ LastSymbol(Emitted).kind = "Property"
               /\ LastSymbol(Emitted).type = openProperty[1].type
               /\ LastSymbol(Emitted).name = openProperty[1].name
               /\ LastSymbol(Emitted).args = openProperty[1].args
               /\ LastSymbol(Emitted).symbolRange.start = openProperty[1].startPosition]_vars

\* C7 happens: a Method was emitted that starts at a method-open statement of
\* its name and spans a line that holds another method-open statement, which
\* was therefore rejected while this method was open.
C7_Witness ==
    /\ run # Null
    /\ \E j \in DOMAIN SymbolsList :
          /\ SymbolsList[j].kind = "Method"
          /\ IsMethodStart(LineOfRun(SymbolsList[j].symbolRange.start.line))
          /\ Exec(MethodStartRegex, LineOfRun(SymbolsList[j].symbolRange.start.line)).g4
                 = SymbolsList[j].name
          /\ \E l \in 0..(run[1].i - 1) :
                /\ SymbolsList[j].symbolRange.start.line < l
                /\ l < SymbolsList[j].symbolRange.end.line
                /\ IsMethodStart(LineOfRun(l))

\* C8.  In every stored collection the symbolRange of a symbol contains the
\* range of its name.
C8_RangeContainsName ==
    \A u \in Uris :
        symbolCache[u] # Null =>
            \A i \in DOMAIN symbolCache[u][1] :
                RangeContains(symbolCache[u][1][i].symbolRange,
                              symbolCache[u][1][i].nameLocation.range)

\* the tree GetSymbolsOfScope builds from the collection stored for uri
TreeOf(uri) == GetVBSSymbolTree(symbolCache[uri][1])

\* C9.  In the scope tree of every stored collection the range of a child is
\* strictly inside the range of its parent.
C9_ChildrenStrictlyNested ==
    \A u \in Uris :
        symbolCache[u] # Null =>
            \A n \in DOMAIN TreeOf(u).parent :
                TreeOf(u).parent[n] # 0 =>
                    StrictlyInside(TreeOf(u).sorted[n].symbolRange,
                                   TreeOf(u).sorted[TreeOf(u).parent[n]].symbolRange)

\* every way down from node through children whose range holds the position,
\* to a node none of whose children holds it, as the sequence of its nodes
RECURSIVE PathsFrom(_, _, _)
PathsFrom(tree, node, position) ==
    LET holding == {j \in ChildrenOf(tree.parent, node) :
                       PositionInRange(tree.sorted[j].symbolRange, position)}
    IN  IF holding = {} THEN {<<node>>}
        ELSE UNION {{<<node>> \o p : p \in PathsFrom(tree, j, position)} : j \in holding}

\* the symbols of the direct children of the nodes of path, root first
RECURSIVE ChildrenAlong(_, _)
ChildrenAlong(tree, path) ==
    IF path = <<>> THEN <<>>
    ELSE LET kids == IndexSeq(ChildrenOf(tree.parent, Head(path)))
         IN  [i \in 1..Len(kids) |-> tree.sorted[kids[i]]] \o ChildrenAlong(tree, Tail(path))

\* the server has answered a completion request with items
Completed == response # Null /\ response[1].op = "completion" /\ "items" \in DOMAIN response[1]

\* C10.  The answer to a completion request at a position is made of exactly
\* the direct children of the root and of every node on a path from the root
\* to an innermost node that holds the position.
C10_ResolveAtScope ==
    Completed =>
        \E path \in PathsFrom(TreeOf(response[1].uri), 0, response[1].position) :
            response[1].items =
                GetLanguageServerCompletionItems(ChildrenAlong(TreeOf(response[1].uri), path))

\* C10 happens: the position is inside a construct, and symbols nested in
\* other constructs are left out of the answer.
C10_Witness ==
    /\ Completed
    /\ \E path \in PathsFrom(TreeOf(response[1].uri), 0, response[1].position) :
          /\ Len(path) >= 2
          /\ response[1].items =
                 GetLanguageServerCompletionItems(ChildrenAlong(TreeOf(response[1].uri), path))
    /\ Len(response[1].items) < Len(symbolCache[response[1].uri][1])

-----------------------------------------------------------------------------
\* Parameters.

\* the statement closes the open method, which was opened with parameter text
ClosesMethodWithParameters ==
    /\ Parsing
    /\ openMethod # Null
    /\ IsMethodEnd(CurrentStatement)
    /\ openMethod[1].args # <<>>

\* C11.  A method opened with parameter text and then closed yields one
\* Variable symbol per comma-separated parameter followed by one Method
\* symbol, and each of those Variable symbols has the name of the method as
\* its parentName.
C11_ParametersParentedToMethod ==
    [][ClosesMethodWithParameters
          => /\ Len(Emitted) = Len(Split(openMethod[1].args, ",")) + 1
             /\ LastSymbol(Emitted).kind = "Method"
             /\ LastSymbol(Emitted).name = openMethod[1].name
             /\ \A j \in 1..(Len(Emitted) - 1) :
                   /\ Emitted[j].kind = "Variable"
                   /\ Emitted[j].parentName = openMethod[1].name]_vars

-----------------------------------------------------------------------------
\* The symbol cache.

\* the state of the open constructs, as FindSymbol takes it
Opens == OpenState(openClassName, openClassStart, openMethod, openProperty)

\* C12.  A refresh of a document starts from an empty collection, every
\* parse step appends to it what FindSymbol returns for the statement and
\* leaves the cache alone, and the step that completes the refresh stores
\* that collection (sorted by start position when a completion request
\* asked for the refresh) in the slot of the document and leaves every
\* other slot as it was.
C12_RefreshReplacesSlot ==
    [][/\ (run = Null /\ run' # Null) => run'[1].symbolsList = <<>>
       /\ (run # Null /\ run' # Null)
            => /\ symbolCache' = symbolCache
               /\ run'[1].symbolsList =
                      run[1].symbolsList
                          \o FindSymbol(CurrentStatement, run[1].i, run[1].uri, Opens).symbols
       /\ (run # Null /\ run' = Null)
            => /\ symbolCache'[run[1].uri] =
                      <<IF run[1].op = "completion" THEN SortSymbols(run[1].symbolsList)
                        ELSE run[1].symbolsList>>
               /\ \A u \in Uris \ {run[1].uri} : symbolCache'[u] = symbolCache[u]]_vars

\* C12 happens: an outline request has just completed a refresh that stored
\* a collection with symbols, while the other document has a different
\* collection stored.
C12_Witness ==
    /\ run = Null
    /\ response # Null
    /\ response[1].op = "documentSymbol"
    /\ "symbols" \in DOMAIN response[1]
    /\ Len(response[1].symbols) > 0
    /\ Len(symbolCache[response[1].uri][1]) = Len(response[1].symbols)
    /\ \E u \in Uris \ {response[1].uri} :
          /\ symbolCache[u] # Null
          /\ symbolCache[u] # symbolCache[response[1].uri]

\* C13.  Each document has at most one stored collection.  The deletion of
\* a watched file empties the slot of that document and leaves the other
\* slots as they were, and an empty slot is filled again only by the step
\* that completes a refresh of that document.
C13_DeletedRemovesSnapshot ==
    [][/\ \A u \in Uris : Len(symbolCache[u]) <= 1
       /\ \A u \in Uris :
             OnDidChangeWatchedFilesDeleted(u)
                => /\ symbolCache'[u] = Null
                   /\ \A v \in Uris \ {u} : symbolCache'[v] = symbolCache[v]
       /\ \A u \in Uris :
             (symbolCache[u] = Null /\ symbolCache'[u] # Null)
                => run # Null /\ run[1].uri = u /\ run' = Null]_vars

\* C13 happens: no handler is running, a method opened by a parse of a
\* document is still open, so a refresh of that document has completed and
\* stored a collection, and the slot of the document is empty again, while the
\* other document still has its collection.
C13_Witness ==
    /\ run = Null
    /\ openMethod # Null
    /\ symbolCache[openMethod[1].nameLocation.uri] = Null
    /\ \E v \in Uris \ {openMethod[1].nameLocation.uri} :
          symbolCache[v] # Null /\ Len(symbolCache[v][1]) > 0

-----------------------------------------------------------------------------
\* Completion requests.

\* the labels of completion items, and the names of symbols
Labels(items) == [j \in 1..Len(items) |-> items[j].label]

Names(symbols) == [j \in 1..Len(symbols) |-> symbols[j].name]

\* the reply to a completion request at position, computed from symbols: one
\* item per symbol of the scope, labelled with the name of the symbol
AnswersFrom(reply, symbols, position) ==
    /\ reply # Null
    /\ reply[1].op = "completion"
    /\ "items" \in DOMAIN reply[1]
    /\ Labels(reply[1].items) = Names(GetSymbolsOfScope(symbols, position))

\* C14.  A completion request for an open document starts a refresh of the
\* document if and only if nothing is stored for it; when a collection is
\* stored the request is answered at once from that collection and no parse
\* is started.  Whether answered at once or when the refresh it started
\* completes, the reply has one item per symbol GetSymbolsOfScope returns
\* for the position, labelled with the name of that symbol.
C14_CompletionRefreshesIffNoSnapshot ==
    [][/\ (run = Null /\ run' # Null /\ run'[1].op = "completion")
             => symbolCache[run'[1].uri] = Null
       /\ \A u \in Uris, p \in Positions :
             (Idle /\ documents[u] # Null /\ symbolCache[u] = Null /\ OnCompletion(u, p))
                => /\ run' # Null
                   /\ run'[1].op = "completion" /\ run'[1].uri = u
                   /\ run'[1].position = p /\ run'[1].i = 0
       /\ \A u \in Uris, p \in Positions :
             (/\ Idle /\ symbolCache[u] # Null
              /\ response' # Null /\ response'[1].uri = u /\ response'[1].op = "completion"
              /\ response'[1].position = p
              /\ OnCompletion(u, p))
                => run' = Null /\ AnswersFrom(response', symbolCache[u][1], p)
       /\ (run # Null /\ run[1].op = "completion" /\ run' = Null)
             => AnswersFrom(response', run[1].symbolsList, run[1].position)]_vars

\* C14 happens: a completion request has been answered with two items or
\* more, one per symbol of the scope of the position in the stored collection.
C14_Witness ==
    /\ run = Null
    /\ response # Null
    /\ response[1].op = "completion"
    /\ "items" \in DOMAIN response[1]
    /\ Len(response[1].items) >= 2
    /\ AnswersFrom(response, symbolCache[response[1].uri][1], response[1].position)

-----------------------------------------------------------------------------
\* Edits.

\* C15.  A change of the content of a document refreshes its symbols:
\* whenever no handler is running, the collection stored for a document is
\* the parse of the text the document has now, so that a completion request
\* is answered from the new text.  (A completion request sorts the stored
\* collection, so the two are compared sorted.)
C15_SnapshotFollowsText ==
    \A u \in Uris :
        (run = Null /\ documents[u] # Null /\ symbolCache[u] # Null)
            => SortSymbols(symbolCache[u][1])
                   = SortSymbols(CollectSymbols(documents[u][1], u))

-----------------------------------------------------------------------------
\* Errors in the text.

\* the text of the document the handler in progress parses
RunText == documents[run[1].uri][1]

\* C16.  Whatever the statements are, the parse goes from each statement to
\* the next up to the end of the document: a handler in progress is at a
\* statement of the document or at its end, every step it takes before the
\* end moves to the next statement, and it ends only at the end of the
\* document, storing a collection and answering an outline request with a
\* list of symbols and a completion request with a list of items.  No
\* request for an open document is answered with an error.
C16_ParseNeverAborts ==
    [][/\ run # Null
            => /\ run[1].i <= NumberOfLines(RunText)
               /\ run[1].i < NumberOfLines(RunText)
                    => run[1].k \in 1..Len(StatementsAt(RunText, run[1].i))
       /\ (run # Null /\ run' # Null)
            => /\ run[1].i < NumberOfLines(RunText)
               /\ <<run'[1].i, run'[1].k>> =
                      IF run[1].k = Len(StatementsAt(RunText, run[1].i))
                      THEN <<run[1].i + 1, 1>>
                      ELSE <<run[1].i, run[1].k + 1>>
       /\ (run # Null /\ run' = Null)
            => /\ run[1].i = NumberOfLines(RunText)
               /\ symbolCache'[run[1].uri] # Null
               /\ run[1].op = "documentSymbol"
                    => /\ response' # Null
                       /\ "symbols" \in DOMAIN response'[1]
                       /\ Len(response'[1].symbols) = Len(run[1].symbolsList)
               /\ run[1].op = "completion"
                    => response' # Null /\ "items" \in DOMAIN response'[1]
       /\ (response' # Null /\ documents[response'[1].uri] # Null)
            => "error" \notin DOMAIN response'[1]]_vars

\* C16 happens: the parse of a request has reached the end of the document
\* with a construct left open, and its last statement was logged as an error.
C16_Witness ==
    /\ run # Null
    /\ run[1].op \in {"documentSymbol", "completion"}
    /\ run[1].i = NumberOfLines(RunText)
    /\ console # <<>>
    /\ openMethod # Null \/ openProperty # Null \/ openClassName # NullStr

-----------------------------------------------------------------------------
\* Classes and fields.

IsClassStart(statement) == Exec(ClassStartRegex, statement).ok

IsClassEnd(statement) == Exec(ClassEndRegex, statement).ok

IsClassSymbol(symbol) == symbol.kind = "Class"

\* the parse in progress is the first one of the document, which started
\* with nothing open
FirstParse == Parsing /\ \A u \in Uris : symbolCache[u] = Null

\* read from the text: the line (0-based) of the class statement that is
\* open after line l, -1 if no class is open there
RECURSIVE OpenClassLine(_)
OpenClassLine(l) ==
    IF l < 0 THEN -1
    ELSE IF IsClassEnd(LineOfRun(l)) THEN -1
    ELSE IF IsClassStart(LineOfRun(l)) THEN l
    ELSE OpenClassLine(l - 1)

\* C17.  In a parse that starts with nothing open, the end class statement
\* that follows a class statement yields exactly one symbol, a Class with
\* the name of the class statement, whose symbolRange starts on the line of
\* the class statement and ends on the line of end class; no other
\* statement yields a Class symbol.
C17_ClassEmittedAtEndClass ==
    [][FirstParse
          => IF IsClassEnd(CurrentStatement) /\ OpenClassLine(run[1].i - 1) >= 0
             THEN /\ Len(Emitted) = 1
                  /\ Emitted[1].kind = "Class"
                  /\ Emitted[1].name =
                         Exec(ClassStartRegex, LineOfRun(OpenClassLine(run[1].i - 1))).g1
                  /\ Emitted[1].symbolRange.start.line = OpenClassLine(run[1].i - 1)
                  /\ Emitted[1].symbolRange.end.line = run[1].i
             ELSE SelectSeq(Emitted, IsClassSymbol) = <<>>]_vars

\* C17 happens: the first parse of a document has emitted a Class symbol
\* that spans three lines or more.
C17_Witness ==
    /\ run # Null
    /\ \A u \in Uris : symbolCache[u] = Null
    /\ \E j \in DOMAIN SymbolsList :
          /\ SymbolsList[j].kind = "Class"
          /\ SymbolsList[j].symbolRange.end.line >= SymbolsList[j].symbolRange.start.line + 2

IsMember(statement) == Exec(MemberRegex, statement).ok

\* read from the text: the name of the class open after line l, null if none
OpenClassNameAt(l) ==
    IF OpenClassLine(l) >= 0
    THEN Exec(ClassStartRegex, LineOfRun(OpenClassLine(l))).g1
    ELSE NullStr

\* the fields of the class whose statement is on line l, among symbols
FieldsAfter(symbols, l) ==
    SelectSeq(symbols, LAMBDA s : s.kind = "Member" /\ s.symbolRange.start.line > l)

\* C18.  In a parse that starts with nothing open, a field statement yields
\* exactly one symbol, a field (kind Member) with the name of the statement,
\* whose symbolRange goes from the visibility keyword to the end of the name
\* and whose parentName is the name of the class open at the statement, null
\* at file scope; and when end class closes that class, the symbolRange of
\* the Class symbol contains the symbolRange of each of its fields.
C18_FieldInsideItsClass ==
    [][FirstParse
          => /\ IsMember(CurrentStatement)
                  => /\ Len(Emitted) = 1
                     /\ Emitted[1].kind = "Member"
                     /\ Emitted[1].name = Exec(MemberRegex, CurrentStatement).g2
                     /\ Emitted[1].symbolRange =
                            MkRange(Position(run[1].i, GetNumberOfFrontSpaces(CurrentStatement)),
                                    Position(run[1].i, Len(TrimRight(CurrentStatement))))
                     /\ Emitted[1].parentName = OpenClassNameAt(run[1].i - 1)
             /\ (IsClassEnd(CurrentStatement) /\ OpenClassLine(run[1].i - 1) >= 0)
                  => \A j \in DOMAIN FieldsAfter(SymbolsList, OpenClassLine(run[1].i - 1)) :
                        /\ FieldsAfter(SymbolsList, OpenClassLine(run[1].i - 1))[j].parentName
                               = Emitted[1].name
                        /\ RangeContains(
                               Emitted[1].symbolRange,
                               FieldsAfter(SymbolsList,
                                           OpenClassLine(run[1].i - 1))[j].symbolRange)]_vars

\* C18 happens: the first parse of a document has emitted a field with a
\* class as parent and then the Class symbol of that name, which contains it.
C18_Witness ==
    /\ run # Null
    /\ \A u \in Uris : symbolCache[u] = Null
    /\ \E i, j \in DOMAIN SymbolsList :
          /\ i < j
          /\ SymbolsList[i].kind = "Member"
          /\ SymbolsList[j].kind = "Class"
          /\ SymbolsList[i].parentName = SymbolsList[j].name
          /\ RangeContains(SymbolsList[j].symbolRange, SymbolsList[i].symbolRange)

-----------------------------------------------------------------------------
\* Line continuation.

\* the symbols among symbols that start on line l or on line l + 1
StartingOn(symbols, l) ==
    SelectSeq(symbols, LAMBDA s : s.symbolRange.start.line \in {l, l + 1})

\* lines l and l + 1 of the document being parsed are the Dim statement that
\* ends with the continuation marker and its second line, at file scope, and
\* the first parse of the document has passed both
ContinuedDimParsed(l) ==
    /\ run # Null
    /\ \A u \in Uris : symbolCache[u] = Null
    /\ l + 2 <= run[1].i
    /\ LineOfRun(l) = lnDimContinued
    /\ LineOfRun(l + 1) = lnContinuation
    /\ OpenClassLine(l - 1) = -1

\* C20.  A Dim statement that ends with the continuation marker is read
\* together with the next line: "Dim x, _" followed by "    y" yields two
\* Variable symbols at file scope and no other symbol, x from the Dim keyword
\* to the end of x on the first line and y over its token on the second
\* line; no symbol is named "_".
C20_ContinuedDimJoined ==
    \A l \in 0..(MaxLines - 2) :
        ContinuedDimParsed(l)
            => /\ Len(StartingOn(SymbolsList, l)) = 2
               /\ \A j \in 1..2 :
                     /\ StartingOn(SymbolsList, l)[j].kind = "Variable"
                     /\ StartingOn(SymbolsList, l)[j].parentName = <<>>
               /\ StartingOn(SymbolsList, l)[1].name = <<"x">>
               /\ StartingOn(SymbolsList, l)[1].symbolRange =
                      MkRange(Position(l, 0), Position(l, 5))
               /\ StartingOn(SymbolsList, l)[2].name = <<"y">>
               /\ StartingOn(SymbolsList, l)[2].symbolRange =
                      MkRange(Position(l + 1, 4), Position(l + 1, 5))

-----------------------------------------------------------------------------
\* Statements of a line.

\* the number of members of s equal to c
RECURSIVE Count(_, _)
Count(s, c) ==
    IF s = <<>> THEN 0
    ELSE (IF Head(s) = c THEN 1 ELSE 0) + Count(Tail(s), c)

\* the part of a line before its comment, the comment marker being the first
\* "'" of the line
BeforeComment(line) ==
    IF IndexOf(line, <<"'">>) > -1 THEN SubSeq(line, 1, IndexOf(line, <<"'">>)) ELSE line

\* the colons of a physical line that separate statements: with the string
\* literals of the line masked, those before the comment
ColonsOutsideLiterals(rawLine) ==
    Count(BeforeComment(ReplaceStringLiterals(rawLine)), ":")

\* C19.  A colon inside a string literal does not split a statement: the
\* number of statements CollectSymbols makes of a physical line is one plus
\* the number of colons of the line that are outside its string literals
\* (and before its comment).
C19_ColonInLiteralNeverSplits ==
    Parsing
        => Len(StatementsAt(RunText, run[1].i))
               = 1 + ColonsOutsideLiterals(LineOfRun(run[1].i))

-----------------------------------------------------------------------------
\* read from the text: the identifier tokens of a comma-separated list that
\* starts at index i of line, each with its name and its columns (0-based,
\* the end column after its last character)
RECURSIVE TokensFrom(_, _)
TokensFrom(line, i) ==
    LET s == RunEnd(line, i, WsChars)
        e == RunEnd(line, s, IdentChars)
        c == RunEnd(line, e, WsChars)
        token == [name |-> SubSeq(line, s, e - 1), start |-> s - 1, end |-> e - 1]
    IN  IF c <= Len(line) /\ line[c] = "," THEN <<token>> \o TokensFrom(line, c + 1)
        ELSE <<token>>

\* the column (0-based) of the Dim keyword of a Dim statement
DimColumn(line) == RunEnd(line, 1, WsChars) - 1

\* the identifier tokens of a Dim statement
DimTokens(line) == TokensFrom(line, DimColumn(line) + 4)

\* the parse of a document of one line has passed the line
LineParsed == run # Null /\ run[1].i = 1 /\ NumberOfLines(RunText) = 1

\* C21.  A Dim statement with n comma-separated identifiers, with any spaces
\* or tabs around them, yields n Variable symbols; the name of the i-th is
\* the i-th identifier without surrounding whitespace and its nameRange covers
\* exactly the columns of the i-th identifier token, also when a name is
\* repeated or is a suffix of another name of the list.
C21_DimNamesAndNameRanges ==
    LineParsed =>
        LET tokens == DimTokens(RunText)
        IN  /\ Len(SymbolsList) = Len(tokens)
            /\ \A j \in 1..Len(tokens) :
                   /\ SymbolsList[j].kind = "Variable"
                   /\ SymbolsList[j].name = tokens[j].name
                   /\ SymbolsList[j].nameLocation.range
                          = MkRange(Position(0, tokens[j].start),
                                    Position(0, tokens[j].end))

\* C28.  In a Dim statement the declaredRange of the first variable starts at
\* the column of the Dim keyword and ends at the end of the first identifier;
\* the declaredRange of every later variable is its own nameRange, the
\* columns of its identifier token and nothing else.
C28_DimDeclaredRanges ==
    LineParsed =>
        LET tokens == DimTokens(RunText)
        IN  \A j \in 1..Len(SymbolsList) :
                IF j = 1
                THEN SymbolsList[j].symbolRange
                         = MkRange(Position(0, DimColumn(RunText)),
                                   Position(0, tokens[j].end))
                ELSE /\ SymbolsList[j].symbolRange = SymbolsList[j].nameLocation.range
                     /\ SymbolsList[j].symbolRange
                            = MkRange(Position(0, tokens[j].start),
                                      Position(0, tokens[j].end))

\* the last reply is the outline of a document
Outlined ==
    response # Null /\ response[1].op = "documentSymbol" /\ "symbols" \in DOMAIN response[1]

\* the symbols stored for the document of the last reply
Snapshot == symbolCache[response[1].uri][1]

\* the outline kind of the kind of declaration that produced a symbol
DeclaredKind(symbol) ==
    CASE symbol.kind = "Class" -> "Class"
      [] symbol.kind = "Method" -> "Method"
      [] symbol.kind = "Property" -> "Property"
      [] symbol.kind = "Member" -> "Field"
      [] symbol.kind = "Variable" -> "Variable"
      [] symbol.kind = "Constant" -> "Constant"

\* C22.  The outline of a document has exactly one entry per symbol of the
\* snapshot of the document, and the kind of each entry is the kind of the
\* declaration that produced the symbol: Class, Method, Property, Field,
\* Variable (Dim variables and parameters) or Constant.
C22_OutlineKinds ==
    Outlined =>
        /\ Len(response[1].symbols) = Len(Snapshot)
        /\ \A j \in 1..Len(Snapshot) :
               response[1].symbols[j].kind = DeclaredKind(Snapshot[j])

\* the name "name (args)" of a symbol with parameters, the bare name of another
Rendered(symbol) ==
    IF symbol.kind \in {"Method", "Property"}
    THEN symbol.name \o <<" ", "(">> \o symbol.args \o <<")">>
    ELSE symbol.name

\* C23.  In the outline a Method symbol and a Property symbol are named by
\* the declared name, one space and the raw parameter text in parentheses;
\* the accessor keyword of a property is in its declaredType and not in the
\* rendered name; Field, Variable, Constant and Class symbols are named by
\* the bare name.
C23_RenderedNames ==
    Outlined =>
        \A j \in 1..Len(Snapshot) :
            /\ response[1].symbols[j].name = Rendered(Snapshot[j])
            /\ Snapshot[j].kind = "Property"
                   => Trim(LowerStr(Snapshot[j].type)) \in {kwGet, kwLet, kwSet}

IsConstant(statement) == Exec(ConstantRegex, statement).ok

IsConstantSymbol(symbol) == symbol.kind = "Constant"

\* C24.  No statement processed while a method or a property is open yields
\* a Constant symbol; a const statement with an assignment processed while
\* neither is open yields exactly one symbol, a Constant with the declared
\* name whose parent is the open class, or the file scope if no class is
\* open.
C24_ConstantsOutsideMethods ==
    [][Parsing
          => IF openMethod # Null \/ openProperty # Null
             THEN SelectSeq(Emitted, IsConstantSymbol) = <<>>
             ELSE IsConstant(CurrentStatement)
                      => /\ Len(Emitted) = 1
                         /\ Emitted[1].kind = "Constant"
                         /\ Emitted[1].name = Exec(ConstantRegex, CurrentStatement).g2
                         /\ Emitted[1].parentName =
                                IF openClassName # NullStr THEN openClassName ELSE <<>>]_vars

\* C24 happens: a parse is at a const statement while a method is open, and
\* an earlier parse of the document, at the same statement with no method
\* open, emitted a Constant whose parent is the class.
C24_Witness ==
    /\ Parsing
    /\ IsConstant(CurrentStatement)
    /\ openMethod # Null
    /\ symbolCache[run[1].uri] # Null
    /\ \E j \in DOMAIN symbolCache[run[1].uri][1] :
          /\ symbolCache[run[1].uri][1][j].kind = "Constant"
          /\ symbolCache[run[1].uri][1][j].parentName = <<"A">>
          /\ symbolCache[run[1].uri][1][j].symbolRange.start.line = run[1].i

IsDim(statement) == Exec(VariableRegex, statement).ok

\* C27.  Every symbol a Dim statement yields is a Variable whose parent is
\* the open property if one is open, else the open method if one is open,
\* else the open class if one is open, else the file scope.
C27_DimParentPriority ==
    [][Parsing /\ IsDim(CurrentStatement)
          => /\ Len(Emitted) = Len(DimTokens(CurrentStatement))
             /\ \A j \in 1..Len(Emitted) :
                    /\ Emitted[j].kind = "Variable"
                    /\ Emitted[j].parentName =
                           IF openProperty # Null THEN openProperty[1].name
                           ELSE IF openMethod # Null THEN openMethod[1].name
                           ELSE IF openClassName # NullStr THEN openClassName
                           ELSE <<>>]_vars

\* C27 happens: a parse has passed a Dim statement while a method and a
\* property were both open, and the variables have the property as their
\* parent.
C27_Witness ==
    /\ run # Null
    /\ openMethod # Null
    /\ openProperty # Null
    /\ SymbolsList # <<>>
    /\ LastSymbol(SymbolsList).kind = "Variable"
    /\ LastSymbol(SymbolsList).parentName = openProperty[1].name
    /\ LastSymbol(SymbolsList).parentName # openMethod[1].name

\* C25.  The comment of a physical line starts at the first comment marker
\* outside every string literal: the statements of the line cover the line
\* up to that marker (the whole line if there is none), so a marker inside a
\* literal does not truncate the line and what follows the literal is still
\* split off.
C25_CommentMarkerInLiteralKept ==
    Parsing
        => LET statements == StatementsAt(RunText, run[1].i)
           IN  Len(statements[Len(statements)])
                   = Len(BeforeComment(ReplaceStringLiterals(LineOfRun(run[1].i))))

\* the indexes of the colons of a line, in order
ColonIndexes(line) ==
    SelectSeq([i \in 1..Len(line) |-> i], LAMBDA i : line[i] = ":")

\* the physical line being parsed, without its comment
CutLine == BeforeComment(LineOfRun(run[1].i))

\* C26.  Masking and splitting preserve columns.  Masking leaves the length
\* of the line as it is and changes nothing but characters from a quote to a
\* quote, each into a space.  The k-th statement of the line is as many
\* spaces as the column at which it begins in the masked line (0 for the
\* first, the column after the colon before it for the others), followed by
\* the characters of the masked line from that column up to the next colon
\* or the end of the line, each at the index it has in the masked line.
C26_ColumnsPreserved ==
    Parsing
        => LET masked == ReplaceStringLiterals(CutLine)
               colons == ColonIndexes(masked)
               statements == StatementsAt(RunText, run[1].i)
           IN  /\ Len(masked) = Len(CutLine)
               /\ \A i \in 1..Len(masked) :
                      \/ masked[i] = CutLine[i]
                      \/ /\ masked[i] = " "
                         /\ \E a \in 1..i : CutLine[a] = "\""
                         /\ \E b \in i..Len(CutLine) : CutLine[b] = "\""
               /\ Len(statements) = Len(colons) + 1
               /\ \A k \in 1..Len(statements) :
                      LET begin == IF k = 1 THEN 0 ELSE colons[k - 1]
                          end == IF k = Len(statements) THEN Len(masked)
                                 ELSE colons[k] - 1
                      IN  /\ Len(statements[k]) = end
                          /\ \A j \in 1..end :
                                 statements[k][j] = IF j <= begin THEN " " ELSE masked[j]

\* C26 happens: a parse is at a line with a masked string literal and two
\* statements or more, the last of which ends with a letter.
C26_Witness ==
    /\ Parsing
    /\ ReplaceStringLiterals(CutLine) # CutLine
    /\ LET statements == StatementsAt(RunText, run[1].i)
       IN  /\ Len(statements) >= 2
           /\ Len(statements[Len(statements)]) = Len(CutLine)
           /\ CutLine[Len(CutLine)] = "x"
           /\ statements[Len(statements)][Len(CutLine)] = "x"

-----------------------------------------------------------------------------
\* read from the text: the words (runs of identifier characters) of a
\* parameter token that starts at index i of line, each with its columns
RECURSIVE WordsFrom(_, _)
WordsFrom(line, i) ==
    LET s == RunEnd(line, i, WsChars)
        e == RunEnd(line, s, IdentChars)
    IN  IF e = s THEN <<>>
        ELSE <<[name |-> SubSeq(line, s, e - 1), start |-> s - 1, end |-> e - 1]>>
                 \o WordsFrom(line, e)

\* the words of each comma-separated token of the parameter list whose first
\* token starts at index i of line
RECURSIVE ParamWordsFrom(_, _)
ParamWordsFrom(line, i) ==
    LET c == RunEnd(line, i, IdentChars \cup WsChars)
    IN  <<WordsFrom(line, i)>>
            \o (IF line[c] = "," THEN ParamWordsFrom(line, c + 1) ELSE <<>>)

\* the identifier of a parameter token: its only word, or the word after the
\* modifier
Identifier(words) == IF Len(words) = 1 THEN words[1] ELSE words[2]

\* the identifiers of the parameters of the open statement on line 0 of the
\* document being parsed
Parameters ==
    LET line == LineOfRun(0)
        words == ParamWordsFrom(line, IndexOf(line, <<"(">>) + 2)
    IN  [j \in 1..Len(words) |-> Identifier(words[j])]

IsVariableSymbol(symbol) == symbol.kind = "Variable"

\* the parse of a document of two lines has passed both
OpenAndEndParsed == run # Null /\ run[1].i = 2 /\ NumberOfLines(RunText) = 2

\* C29.  Every comma-separated token of the parameter text of a method or a
\* property yields exactly one Variable symbol, named by the identifier of
\* the parameter: the token itself when it is one word, the word after the
\* modifier when it has two words or more; the name is not empty and holds
\* no whitespace.
C29_ParameterNames ==
    OpenAndEndParsed =>
        LET symbols == SelectSeq(SymbolsList, IsVariableSymbol)
        IN  /\ Len(symbols) = Len(Parameters)
            /\ \A j \in 1..Len(symbols) :
                   /\ symbols[j].name = Parameters[j].name
                   /\ symbols[j].name # <<>>
                   /\ \A k \in 1..Len(symbols[j].name) : symbols[j].name[k] \notin WsChars

\* C30.  The nameRange of each parameter symbol covers exactly the columns of
\* the identifier of that parameter on the line of the open statement, with
\* or without a modifier before the name, whatever the indentation and the
\* visibility of the open statement.
C30_ParameterNameRanges ==
    OpenAndEndParsed =>
        LET symbols == SelectSeq(SymbolsList, IsVariableSymbol)
        IN  \A j \in 1..Len(symbols) :
                symbols[j].nameLocation.range
                    = MkRange(Position(0, Parameters[j].start),
                              Position(0, Parameters[j].end))

-----------------------------------------------------------------------------
IsMethodOrProperty(symbol) == symbol.kind \in {"Method", "Property"}

\* C31.  In a parse that starts with nothing open, the parentName of a Method
\* or Property symbol is the class that was open when its open statement was
\* processed (null at file scope), whatever class and end class statements
\* were processed between its open and its close.
C31_ParentIsClassAtOpen ==
    [][FirstParse
          => \A j \in 1..Len(Emitted) :
                 IsMethodOrProperty(Emitted[j])
                     => Emitted[j].parentName
                            = OpenClassNameAt(Emitted[j].symbolRange.start.line - 1)]_vars

\* read from the text: the line (0-based) of the first class statement after
\* the last end class before line l + 1, -1 if there is none
RECURSIVE FirstOpenClassLine(_)
FirstOpenClassLine(l) ==
    IF l < 0 THEN -1
    ELSE IF IsClassEnd(LineOfRun(l)) THEN -1
    ELSE IF FirstOpenClassLine(l - 1) >= 0 THEN FirstOpenClassLine(l - 1)
    ELSE IF IsClassStart(LineOfRun(l)) THEN l
    ELSE -1

\* C32.  A class statement processed while a class is open leaves the open
\* class name and start position those of the first class statement, and
\* the Class symbol emitted at the next end class has the name and the start
\* of the first class statement.
C32_SecondClassOpenIgnored ==
    [][Parsing
          => /\ (IsClassStart(CurrentStatement) /\ openClassName # NullStr)
                    => /\ openClassName' = openClassName
                       /\ openClassStart' = openClassStart
             /\ (FirstParse /\ IsClassEnd(CurrentStatement)
                     /\ FirstOpenClassLine(run[1].i - 1) >= 0)
                    => /\ Len(Emitted) = 1
                       /\ Emitted[1].kind = "Class"
                       /\ Emitted[1].name =
                              Exec(ClassStartRegex,
                                   LineOfRun(FirstOpenClassLine(run[1].i - 1))).g1
                       /\ Emitted[1].symbolRange.start
                              = Position(FirstOpenClassLine(run[1].i - 1), 0)]_vars

-----------------------------------------------------------------------------
\* the nodes inserted before node n whose range holds the start of node n
HoldingStart(tree, n) ==
    {j \in 1..(n - 1) :
        PositionInRange(tree.sorted[j].symbolRange, tree.sorted[n].symbolRange.start)}

\* the number of members of symbols equal to symbol
Occurrences(symbols, symbol) == Cardinality({j \in DOMAIN symbols : symbols[j] = symbol})

\* C33.  The scope tree of a stored collection holds every symbol of the
\* collection in exactly one node, and the parent of each node is the
\* innermost of the nodes inserted before it whose range holds the start of
\* its symbol (the one whose range lies in the range of every other such
\* node), or the root if no such node exists.
C33_ParentIsInnermostHolder ==
    symbolCache[ParsedUri] # Null =>
        LET tree == TreeOf(ParsedUri)
        IN  /\ Len(tree.parent) = Len(symbolCache[ParsedUri][1])
            /\ \A n \in DOMAIN tree.sorted :
                   Occurrences(tree.sorted, tree.sorted[n])
                       = Occurrences(symbolCache[ParsedUri][1], tree.sorted[n])
            /\ \A n \in DOMAIN tree.parent :
                   IF HoldingStart(tree, n) = {} THEN tree.parent[n] = 0
                   ELSE /\ tree.parent[n] \in HoldingStart(tree, n)
                        /\ \A j \in HoldingStart(tree, n) :
                               RangeContains(tree.sorted[j].symbolRange,
                                             tree.sorted[tree.parent[n]].symbolRange)

\* C34.  The collection a parse produces is ordered by the start of the
\* symbolRange, line first and column second: no symbol starts after a
\* symbol that comes later in the collection.
C34_CollectionOrderedByStart ==
    run # Null =>
        \A i, j \in DOMAIN SymbolsList :
            i < j => ~PosBefore(SymbolsList[j].symbolRange.start,
                                SymbolsList[i].symbolRange.start)

\* C35.  A completion request for a document with a stored collection leaves
\* the stored collection as it is, its elements and their order.
C35_CompletionLeavesSnapshot ==
    [][(/\ Idle
        /\ symbolCache[ParsedUri] # Null
        /\ response' # Null
        /\ response'[1].op = "completion")
          => symbolCache' = symbolCache]_vars

\* C36.  Every symbol of the collection stored for a document carries the
\* uri of that document in its nameLocation, and every entry of the outline
\* of a document is located in that document.
C36_SymbolsLocatedInDocument ==
    /\ \A u \in Uris :
           symbolCache[u] # Null =>
               \A j \in DOMAIN symbolCache[u][1] : symbolCache[u][1][j].nameLocation.uri = u
    /\ Outlined =>
           \A j \in DOMAIN response[1].symbols :
               response[1].symbols[j].location.uri = response[1].uri

\* the statement is a close statement and nothing of its category is open
ClosesNothing ==
    \/ IsMethodEnd(CurrentStatement) /\ openMethod = Null
    \/ IsPropertyEnd(CurrentStatement) /\ openProperty = Null
    \/ IsClassEnd(CurrentStatement) /\ openClassName = NullStr

\* C37.  A close statement processed while nothing of its category is open
\* (end function or end sub with no open method, end property with no open
\* property, end class with no open class) yields no symbol and leaves the
\* open class, the open method and the open property as they are, and the
\* parse goes on to the next statement.
C37_CloseOfNothingIsSkipped ==
    [][(Parsing /\ ClosesNothing)
          => /\ Emitted = <<>>
             /\ opens' = opens
             /\ MovesOn]_vars

\* C37 happens: the first parse of a document has passed an end class on its
\* first line with no class open, has emitted nothing and is at the second
\* line with nothing open.
C37_Witness ==
    /\ FirstParse
    /\ run[1].i = 1
    /\ IsClassEnd(LineOfRun(0))
    /\ SymbolsList = <<>>
    /\ openClassName = NullStr
    /\ openMethod = Null
    /\ openProperty = Null

\* read from the text: the open statement on line 0 of the document being
\* parsed has the given word
OpenHas(word) == IndexOf(LowerStr(LineOfRun(0)), word) > -1

\* read from the text: the raw parameter text of that open statement
RawParameters ==
    SubSeq(LineOfRun(0), IndexOf(LineOfRun(0), <<"(">>) + 2, IndexOf(LineOfRun(0), <<")">>))

\* C38.  The Method or Property symbol emitted at close carries what its
\* open statement declared: the visibility (absent if none was written),
\* the kind or accessor keyword, the name and the raw parameter text.
C38_CloseCarriesOpenAttributes ==
    OpenAndEndParsed =>
        LET symbol == LastSymbol(SymbolsList)
        IN  /\ symbol.kind = IF OpenHas(kwProperty) THEN "Property" ELSE "Method"
            /\ IF OpenHas(kwPublic) THEN Trim(LowerStr(symbol.visibility)) = kwPublic
               ELSE symbol.visibility \in {NullStr, <<>>}
            /\ Trim(LowerStr(symbol.type)) = IF OpenHas(kwProperty) THEN kwLet ELSE kwSub
            /\ symbol.name = IF OpenHas(kwProperty) THEN <<"p">> ELSE <<"g">>
            /\ symbol.args = RawParameters

\* the nodes of tree whose range starts or ends exactly at position
NodesWithEndAt(tree, position) ==
    {n \in DOMAIN tree.sorted :
        position \in {tree.sorted[n].symbolRange.start, tree.sorted[n].symbolRange.end}}

\* C39.  The containment the scope tree uses is exclusive at both ends: the
\* range of a node holds a position exactly when the position is after its
\* start and before its end (line first, column second), so every position
\* strictly between the two, at any column of an interior line, is inside;
\* and the answer to a completion request at the start or at the end of a
\* node is made along a path that does not go through that node, so it does
\* not return the children of that node as such.
C39_ContainmentExclusive ==
    Completed =>
        LET tree == TreeOf(response[1].uri)
            position == response[1].position
        IN  /\ \A n \in DOMAIN tree.sorted :
                   PositionInRange(tree.sorted[n].symbolRange, position)
                       <=> /\ PosBefore(tree.sorted[n].symbolRange.start, position)
                           /\ PosBefore(position, tree.sorted[n].symbolRange.end)
            /\ \E path \in PathsFrom(tree, 0, position) :
                   /\ response[1].items
                          = GetLanguageServerCompletionItems(ChildrenAlong(tree, path))
                   /\ \A k \in DOMAIN path : path[k] \notin NodesWithEndAt(tree, position)

\* C39 happens: a completion request was answered at the exact end of a
\* node that has children, at a position inside another node, and the
\* answer leaves out symbols of the collection.
C39_Witness ==
    /\ Completed
    /\ LET tree == TreeOf(response[1].uri)
           position == response[1].position
       IN  /\ \E n \in DOMAIN tree.sorted :
                  /\ position = tree.sorted[n].symbolRange.end
                  /\ ChildrenOf(tree.parent, n) # {}
           /\ \E n \in DOMAIN tree.sorted :
                  /\ PositionInRange(tree.sorted[n].symbolRange, position)
                  /\ position.line = tree.sorted[n].symbolRange.start.line + 1
                  /\ position.line < tree.sorted[n].symbolRange.end.line
    /\ Len(response[1].items) < Len(symbolCache[response[1].uri][1])

====
